---- MODULE Spec2Model ----
(***************************************************************************)
(* FileOrganizer Pro: the transaction log (src/undo_manager.py), the       *)
(* scanning service and the categorization service                         *)
(* (src/fileorganizer_pro/services).                                       *)
(*                                                                         *)
(* Transaction log: the state is one UndoManager (its two bounded deques, the current job   *)
(* buffer), the history file it persists to, the part of the filesystem    *)
(* its operations name, and the wall clock that stamps every operation.    *)
(* Every public method is one action; the filesystem calls a method makes  *)
(* (exists, shutil.move, unlink, shutil.copy2, json.dump) are computed by  *)
(* the operators below.                                                    *)
(***************************************************************************)
EXTENDS Integers, Sequences, FiniteSets, TLC

(***************************************************************************)
(* Bounds of the model.                                                    *)
(***************************************************************************)
MaxOps == 3          \* record_operation calls in one behaviour (SpecJobs)
CoreOps == 2         \* record_operation calls in one behaviour of Spec and SpecPersist
CoreCap == 2         \* largest max_history in Spec and SpecPersist (from 1 up)
MaxCap == 3          \* max_history of the manager in SpecJobs
MaxTicks == 1        \* clock advances in one behaviour
MaxJobs == 2         \* start_job calls in one behaviour
TickStep == 61       \* seconds the clock advances in one Tick

(***************************************************************************)
(* Program constants.                                                      *)
(***************************************************************************)
JobWindow == 60      \* undo_last_job: "Same job if within 1 minute"

Paths == {1, 2}       \* the paths recorded operations name
Contents == {1, 2}    \* distinct file contents
NoFile == 0
Types == {"move", "copy", "delete"}

(***************************************************************************)
(* Metadata: the free-form dict of an operation.  Three shapes are drawn:  *)
(* the empty dict, {'backup_path': '<p>'} with a str value, and            *)
(* {'backup_path': Path('<p>')} with a pathlib.Path value.                 *)
(***************************************************************************)
NoMeta == [kind |-> "none", backup_path |-> 0]
Metas == {NoMeta} \cup [kind : {"str", "path"}, backup_path : Paths]

(***************************************************************************)
(* Arguments of record_operation.  A move or copy names two different      *)
(* paths; a delete names the deleted path as source and destination and    *)
(* may carry a backup location (another path) in its metadata.             *)
(***************************************************************************)
OpInputs ==
    { i \in [operation_type : Types, source : Paths, destination : Paths, metadata : Metas] :
        \/ /\ i.operation_type \in {"move", "copy"}
           /\ i.source # i.destination
           /\ i.metadata = NoMeta
        \/ /\ i.operation_type = "delete"
           /\ i.source = i.destination
           /\ i.metadata.backup_path # i.destination }

VARIABLES
    max_history,             \* self.max_history
    undo_stack,              \* self.undo_stack, most recent last
    redo_stack,              \* self.redo_stack, most recent last
    current_job_operations,  \* self.current_job_operations
    current_job_id,          \* self.current_job_id, 0 is None
    history_file,            \* content of self.history_file on disk
    fs,                      \* path -> content, NoFile when nothing is there
    diskFault,               \* TRUE while the filesystem refuses writes (OSError)
    clock,                   \* datetime.now(), in seconds
    result,                  \* the last call of a public method and what it returned
    before,                  \* the stacks and filesystem when undo_last_operation was called,
                             \* kept while only redo_last_operation calls follow
    jobOf,                   \* recording number -> job open when it was recorded (0: none)
    count                    \* how often each bounded input was used

managerVars == <<max_history, undo_stack, redo_stack, current_job_operations,
                 current_job_id, history_file, fs, diskFault, clock, result, before, jobOf,
                 count>>

(***************************************************************************)
(* Scanning service: one ScanningService, the directory tree it scans and  *)
(* one call of scan() on it, step by step.                                 *)
(***************************************************************************)
VARIABLES
    tree,                    \* the directories and files under the scan root
    gone,                    \* files and directories that vanished since the scan began
    args,                    \* the arguments of the scan() call
    cancelled,               \* self._cancelled
    pc,                      \* where scan() is
    pending,                 \* directories os.walk still has on its stack
    dir_names,               \* dir_names of the directory os.walk yielded last
    dir_path,                \* the directory being processed
    file_names,              \* file names of dir_path not yet processed
    files,                   \* files: List[FileItem]
    folders,                 \* folders: List[FolderItem]
    errors,                  \* errors: List[str]
    skipped_count,           \* skipped_count
    scan_result,             \* the ScanResult scan() returned
    visited,                 \* directories whose processing began, in order
    cancel_mark,             \* what had been collected when the flag was set during the scan,
                             \* and whether cancel() was called before the scan's first statement
    io_errors                \* per-file stat() calls that raised OSError during the scan

scanVars == <<tree, gone, args, cancelled, pc, pending, dir_names, dir_path, file_names,
              files, folders, errors, skipped_count, scan_result, visited, cancel_mark,
              io_errors>>

(***************************************************************************)
(* Categorization service: one CategorizationService built with the        *)
(* default mappings, the module-level table it was built from, and a       *)
(* second service built the same way at some point.                        *)
(***************************************************************************)
VARIABLES
    category_mappings,       \* self.category_mappings
    extension_map,           \* self._extension_map
    cat_result,              \* the last call on the service and what it returned
    default_mappings,        \* the module-level DEFAULT_CATEGORY_MAPPINGS
    shares_default,          \* self.category_mappings is DEFAULT_CATEGORY_MAPPINGS
    peer                     \* the second service: whether it was built, its _extension_map

catVars == <<category_mappings, extension_map, cat_result, default_mappings,
             shares_default, peer>>

(***************************************************************************)
(* Duplicate detector: one DuplicateService and the files it reads.        *)
(***************************************************************************)
VARIABLES
    dup_disk,                \* path -> bytes of the file, Unreadable when it cannot be read
    dup_result               \* the last call on the service and what it returned

dupVars == <<dup_disk, dup_result>>

(***************************************************************************)
(* Organization pass: the source directory and one pass over it.           *)
(***************************************************************************)
VARIABLES
    pass_fs,                 \* the source directory with what was made under it
    pass,                    \* the settings, position and statistics of the pass
    org_result               \* the last call of FileOrganizer.organize and its outcome

passVars == <<pass_fs, pass, org_result>>

(***************************************************************************)
(* File moves: two volumes and one call of move at a time.                 *)
(***************************************************************************)
VARIABLES
    vol,                     \* path -> the file stored there
    mv                       \* the move in progress: arguments, position, outcome

moveVars == <<vol, mv>>

engineVars == <<dupVars, passVars, moveVars>>

serviceVars == <<scanVars, catVars, engineVars>>

vars == <<managerVars, serviceVars>>

notScanVars == <<managerVars, catVars, engineVars>>
notCatVars == <<managerVars, scanVars, engineVars>>
notDupVars == <<managerVars, scanVars, catVars, passVars, moveVars>>
notPassVars == <<managerVars, scanVars, catVars, dupVars, moveVars>>
notMoveVars == <<managerVars, scanVars, catVars, dupVars, passVars>>

(***************************************************************************)
(* Sequences helpers.                                                      *)
(***************************************************************************)
Last(s) == s[Len(s)]
Front(s) == SubSeq(s, 1, Len(s) - 1)

RECURSIVE Reverse(_)
Reverse(s) == IF s = <<>> THEN <<>> ELSE Append(Reverse(Tail(s)), Head(s))

(***************************************************************************)
(* collections.deque(maxlen=cap).append: when the deque is full the item   *)
(* at the opposite (left, oldest) end is discarded.                        *)
(***************************************************************************)
\* Variants with a fault: the new item is refused when the deque is full; the
\* deque is not bounded.
DequeAppendKeepsOldest(s, x, cap) == IF Len(s) >= cap THEN s ELSE Append(s, x)
DequeAppendUnbounded(s, x, cap) == Append(s, x)

DequeAppend(s, x, cap) ==
    IF cap = 0 THEN <<>>
    ELSE IF Len(s) >= cap THEN Append(SubSeq(s, Len(s) - cap + 2, Len(s)), x)
    ELSE Append(s, x)

RECURSIVE DequeExtend(_, _, _)
DequeExtend(s, xs, cap) ==
    IF xs = <<>> THEN s ELSE DequeExtend(DequeAppend(s, Head(xs), cap), Tail(xs), cap)

(***************************************************************************)
(* UndoOperation.__init__: the timestamp is the clock at construction and  *)
(* the id is f"{operation_type}_{timestamp}".  seq numbers the Python      *)
(* object (the n-th operation ever recorded); it is what tells two         *)
(* operations with equal fields apart.                                     *)
(***************************************************************************)
UndoOperation(i, now, n) ==
    [operation_type |-> i.operation_type,
     source |-> i.source,
     destination |-> i.destination,
     metadata |-> i.metadata,
     timestamp |-> now,
     id |-> <<i.operation_type, now>>,
     seq |-> n]

(***************************************************************************)
(* Outcome of a filesystem procedure: ok is its boolean result, raised is  *)
(* TRUE when it left by an exception, fs is the filesystem afterwards.     *)
(***************************************************************************)
Outcome(ok, raised, f) == [ok |-> ok, raised |-> raised, fs |-> f]

\* shutil.move(src, dst): the file leaves src and replaces whatever is at dst.
ShutilMove(f, src, dst) == [f EXCEPT ![dst] = f[src], ![src] = NoFile]

\* shutil.copy2(src, dst)
ShutilCopy(f, src, dst) == [f EXCEPT ![dst] = f[src]]

\* Path.unlink()
Unlink(f, p) == [f EXCEPT ![p] = NoFile]

\* Path.exists()
ExistsAlways(f, p) == TRUE      \* variant with a fault: no existence check
Exists(f, p) == f[p] # NoFile

\* _reverse_operation, 'move': shutil.move(str(destination), str(source))
MoveBackSwapped(op, f) == ShutilMove(f, op.source, op.destination)   \* variant with a fault
MoveBack(op, f) == ShutilMove(f, op.destination, op.source)

\* _apply_operation, 'move': shutil.move(str(source), str(destination))
MoveAgainKeepsSource(op, f) == ShutilCopy(f, op.source, op.destination)   \* variant with a fault
MoveAgain(op, f) == ShutilMove(f, op.source, op.destination)

(***************************************************************************)
(* UndoManager._reverse_operation.  A filesystem call made while the       *)
(* filesystem refuses writes raises, and the method re-raises.             *)
(***************************************************************************)
ReverseOperation(op, f, fault) ==
    IF op.operation_type = "move" THEN
        IF Exists(f, op.destination)
        THEN IF fault THEN Outcome(FALSE, TRUE, f)
             ELSE Outcome(TRUE, FALSE, MoveBack(op, f))
        ELSE Outcome(FALSE, FALSE, f)
    ELSE IF op.operation_type = "copy" THEN
        IF Exists(f, op.destination)
        THEN IF fault THEN Outcome(FALSE, TRUE, f)
             ELSE Outcome(TRUE, FALSE, Unlink(f, op.destination))
        ELSE Outcome(FALSE, FALSE, f)
    ELSE IF op.operation_type = "delete" THEN
        IF op.metadata.backup_path # 0 /\ Exists(f, op.metadata.backup_path)
        THEN IF fault THEN Outcome(FALSE, TRUE, f)
             ELSE Outcome(TRUE, FALSE, ShutilCopy(f, op.metadata.backup_path, op.destination))
        ELSE Outcome(FALSE, FALSE, f)
    ELSE Outcome(FALSE, FALSE, f)

(***************************************************************************)
(* UndoManager._apply_operation: every exception is swallowed into False.  *)
(***************************************************************************)
ApplyOperation(op, f, fault) ==
    IF op.operation_type = "move" /\ Exists(f, op.source) THEN
        IF fault THEN Outcome(FALSE, FALSE, f)
        ELSE Outcome(TRUE, FALSE, MoveAgain(op, f))
    ELSE IF op.operation_type = "copy" /\ Exists(f, op.source) THEN
        IF fault THEN Outcome(FALSE, FALSE, f)
        ELSE Outcome(TRUE, FALSE, ShutilCopy(f, op.source, op.destination))
    ELSE Outcome(FALSE, FALSE, f)

(***************************************************************************)
(* UndoOperation.to_dict / from_dict and the JSON file between them.       *)
(* json.dump encodes str values as they are and raises TypeError on a      *)
(* pathlib.Path value.                                                     *)
(***************************************************************************)
ToDict(op) ==
    [id |-> op.id,
     type |-> op.operation_type,
     source |-> op.source,
     destination |-> op.destination,
     metadata |-> op.metadata,
     timestamp |-> op.timestamp,
     seq |-> op.seq]

FromDict(d) ==
    [operation_type |-> d.type,
     source |-> d.source,
     destination |-> d.destination,
     metadata |-> d.metadata,
     timestamp |-> d.timestamp,
     id |-> d.id,
     seq |-> d.seq]

JsonSerializable(d) == d.metadata.kind # "path"

\* A timestamp string datetime.fromisoformat cannot parse (ValueError), and
\* the 'id' of an entry that has no 'id' key (data['id'] is a KeyError).
Unparsable == -1
MissingField == <<>>
Damages == {"timestamp", "id"}

\* from_dict(d) leaves by an exception
FromDictRaises(d) == d.timestamp = Unparsable \/ d.id = MissingField

\* [op.to_dict() for op in stack] and the from_dict loop of load_history
ToDicts(stack) == [k \in 1..Len(stack) |-> ToDict(stack[k])]
FromDicts(entries) == [k \in 1..Len(entries) |-> FromDict(entries[k])]

\* The entries one "for op_data in data.get(...)" loop of load_history has
\* appended when it ends or from_dict raises: those before the first entry
\* from_dict raises on.
RECURSIVE LoadedPrefix(_)
LoadedPrefix(entries) ==
    IF entries = <<>> THEN <<>>
    ELSE IF FromDictRaises(Head(entries)) THEN <<>>
    ELSE <<Head(entries)>> \o LoadedPrefix(Tail(entries))

NoHistoryFile == [exists |-> FALSE, valid |-> FALSE, undo_stack |-> <<>>, redo_stack |-> <<>>]

(***************************************************************************)
(* UndoManager.save_history: the file is opened for writing (truncated)    *)
(* and json.dump streams the document into it; when an entry cannot be     *)
(* encoded the exception is caught and printed, and the file is left with  *)
(* the incomplete document.                                                *)
(***************************************************************************)
SaveHistory(undo, redo) ==
    LET u == ToDicts(undo)
        r == ToDicts(redo)
    IN  IF (\A k \in 1..Len(u) : JsonSerializable(u[k]))
           /\ (\A j \in 1..Len(r) : JsonSerializable(r[j]))
        THEN [exists |-> TRUE, valid |-> TRUE, undo_stack |-> u, redo_stack |-> r]
        ELSE [exists |-> TRUE, valid |-> FALSE, undo_stack |-> <<>>, redo_stack |-> <<>>]

(***************************************************************************)
(* UndoManager.load_history into the two fresh deques of __init__.  One    *)
(* try block surrounds both loops: an exception of from_dict in the undo   *)
(* loop ends the load before the redo loop, one in the redo loop ends it   *)
(* there; what was appended so far stays.                                  *)
(***************************************************************************)
LoadHistory(file, cap) ==
    IF file.exists /\ file.valid
    THEN LET u == LoadedPrefix(file.undo_stack)
             r == IF Len(u) < Len(file.undo_stack) THEN <<>>
                  ELSE LoadedPrefix(file.redo_stack)
         IN  [undo |-> DequeExtend(<<>>, FromDicts(u), cap),
              redo |-> DequeExtend(<<>>, FromDicts(r), cap)]
    ELSE [undo |-> <<>>, redo |-> <<>>]

(***************************************************************************)
(* What a call returned.  ret is "True", "False", "None" or "raised";      *)
(* the counts and attempts are those of undo_last_job (attempts lists the  *)
(* seq of every operation handed to _reverse_operation, in call order).    *)
(***************************************************************************)
Result(call, ret) ==
    [call |-> call, ret |-> ret, total |-> 0, successful |-> 0, failed |-> 0,
     errors |-> 0, attempts |-> <<>>]

Bool(b) == IF b THEN "True" ELSE "False"

Snapshot == [valid |-> TRUE, undo |-> undo_stack, redo |-> redo_stack, fs |-> fs]
NoSnapshot == [valid |-> FALSE, undo |-> <<>>, redo |-> <<>>, fs |-> [p \in Paths |-> NoFile]]

NoCount == [ops |-> 0, jobs |-> 0]

\* State after UndoManager(history_file, max_history) on a path with no history
\* file, for a positive cap and a filesystem that holds the given files.
InitWith(caps, disk) ==
    /\ max_history \in caps
    /\ undo_stack = <<>>
    /\ redo_stack = <<>>
    /\ current_job_operations = <<>>
    /\ current_job_id = 0
    /\ history_file = NoHistoryFile
    /\ fs \in disk
    /\ diskFault = FALSE
    /\ clock = 0
    /\ result = Result("init", "None")
    /\ before = NoSnapshot
    /\ jobOf = [n \in 1..MaxOps |-> 0]
    /\ count = NoCount

(***************************************************************************)
(* start_job(job_id)                                                       *)
(***************************************************************************)
start_job ==
    /\ count.jobs < MaxJobs
    /\ current_job_id' = count.jobs + 1
    /\ current_job_operations' = <<>>
    /\ count' = [count EXCEPT !.jobs = @ + 1]
    /\ result' = Result("start_job", "None")
    /\ before' = NoSnapshot
    /\ UNCHANGED serviceVars
    /\ UNCHANGED <<max_history, undo_stack, redo_stack, history_file, fs, diskFault, clock,
                   jobOf>>

(***************************************************************************)
(* record_operation(operation_type, source, destination, metadata)         *)
(***************************************************************************)
record_operation(i) ==
    /\ count.ops < MaxOps
    /\ LET operation == UndoOperation(i, clock, count.ops + 1)
       IN  /\ current_job_operations' = Append(current_job_operations, operation)
           /\ undo_stack' = DequeAppend(undo_stack, operation, max_history)
           /\ redo_stack' = <<>>
           /\ jobOf' = [jobOf EXCEPT ![operation.seq] = current_job_id]
    /\ count' = [count EXCEPT !.ops = @ + 1]
    /\ result' = Result("record_operation", "None")
    /\ before' = NoSnapshot
    /\ UNCHANGED serviceVars
    /\ UNCHANGED <<max_history, current_job_id, history_file, fs, diskFault, clock>>

(***************************************************************************)
(* end_job(save_to_disk)                                                   *)
(***************************************************************************)
end_job(save_to_disk) ==
    /\ history_file' = IF save_to_disk THEN SaveHistory(undo_stack, redo_stack)
                       ELSE history_file
    /\ current_job_id' = 0
    /\ current_job_operations' = <<>>
    /\ result' = Result(IF save_to_disk THEN "end_job" ELSE "end_job_nosave", "None")
    /\ before' = NoSnapshot
    /\ UNCHANGED serviceVars
    /\ UNCHANGED <<max_history, undo_stack, redo_stack, fs, diskFault, clock,
                   jobOf, count>>

\* "Put back if failed": self.undo_stack.append(operation) after the pop.
PutBackDropped(popped, operation, cap) == popped   \* variant with a fault: entry consumed
PutBack(popped, operation, cap) == DequeAppend(popped, operation, cap)

(***************************************************************************)
(* undo_last_operation()                                                   *)
(***************************************************************************)
undo_last_operation ==
    /\ before' = Snapshot
    /\ IF undo_stack = <<>>
       THEN /\ result' = Result("undo_last_operation", "False")
            /\ UNCHANGED <<undo_stack, redo_stack, history_file, fs>>
       ELSE LET operation == Last(undo_stack)
                popped == Front(undo_stack)
                r == ReverseOperation(operation, fs, diskFault)
            IN  /\ fs' = r.fs
                /\ IF r.raised
                   THEN \* except: restore to undo stack, raise Exception("Undo failed")
                        /\ undo_stack' = PutBack(popped, operation, max_history)
                        /\ result' = Result("undo_last_operation", "raised")
                        /\ UNCHANGED <<redo_stack, history_file>>
                   ELSE IF r.ok
                   THEN /\ undo_stack' = popped
                        /\ redo_stack' = DequeAppend(redo_stack, operation, max_history)
                        /\ history_file' = SaveHistory(undo_stack', redo_stack')
                        /\ result' = Result("undo_last_operation", "True")
                   ELSE /\ undo_stack' = PutBack(popped, operation, max_history)
                        /\ result' = Result("undo_last_operation", "False")
                        /\ UNCHANGED <<redo_stack, history_file>>
    /\ UNCHANGED serviceVars
    /\ UNCHANGED <<max_history, current_job_operations, current_job_id, diskFault, clock,
                   jobOf, count>>

(***************************************************************************)
(* undo_last_job(): the operations of "the most recent job" are found by   *)
(* popping the undo stack while the popped operation is at most JobWindow  *)
(* seconds older than the one that was on top.                             *)
(***************************************************************************)
SameJob(last_job_time, op) == last_job_time - op.timestamp <= JobWindow

\* How many operations the collecting loop moves to job_operations.
RECURSIVE JobSize(_, _)
JobSize(stack, last_job_time) ==
    IF stack = <<>> THEN 0
    ELSE IF SameJob(last_job_time, Last(stack))
         THEN 1 + JobSize(Front(stack), last_job_time)
         ELSE 0

\* job_operations, in the order the loop appended them (top of the stack first).
JobOperations(stack) ==
    LET n == JobSize(stack, Last(stack).timestamp)
    IN  Reverse(SubSeq(stack, Len(stack) - n + 1, Len(stack)))

\* The undo stack once the loop has put the first operation of another job back.
AfterCollect(stack) ==
    SubSeq(stack, 1, Len(stack) - JobSize(stack, Last(stack).timestamp))

\* One pass of "for operation in job_operations".
ReverseOne(st, operation, fault, cap) ==
    LET r == ReverseOperation(operation, st.fs, fault)
    IN  IF r.raised
        THEN [st EXCEPT !.failed = @ + 1,
                        !.errors = @ + 1,
                        !.undo = DequeAppend(@, operation, cap),
                        !.attempts = Append(@, operation.seq),
                        !.fs = r.fs]
        ELSE IF r.ok
        THEN [st EXCEPT !.successful = @ + 1,
                        !.redo = DequeAppend(@, operation, cap),
                        !.attempts = Append(@, operation.seq),
                        !.fs = r.fs]
        ELSE [st EXCEPT !.failed = @ + 1,
                        !.undo = DequeAppend(@, operation, cap),
                        !.attempts = Append(@, operation.seq),
                        !.fs = r.fs]

RECURSIVE ReverseAll(_, _, _, _)
ReverseAll(st, ops, fault, cap) ==
    IF ops = <<>> THEN st
    ELSE ReverseAll(ReverseOne(st, Head(ops), fault, cap), Tail(ops), fault, cap)

undo_last_job ==
    /\ before' = NoSnapshot
    /\ IF undo_stack = <<>>
       THEN /\ result' = Result("undo_last_job", "False")
            /\ UNCHANGED <<undo_stack, redo_stack, history_file, fs>>
       ELSE LET job_operations == JobOperations(undo_stack)
                st0 == [fs |-> fs, undo |-> AfterCollect(undo_stack), redo |-> redo_stack,
                        successful |-> 0, failed |-> 0, errors |-> 0, attempts |-> <<>>]
                st == ReverseAll(st0, job_operations, diskFault, max_history)
            IN  /\ fs' = st.fs
                /\ undo_stack' = st.undo
                /\ redo_stack' = st.redo
                /\ history_file' = SaveHistory(st.undo, st.redo)
                /\ result' = [call |-> "undo_last_job",
                              ret |-> Bool(st.failed = 0),
                              total |-> Len(job_operations),
                              successful |-> st.successful,
                              failed |-> st.failed,
                              errors |-> st.errors,
                              attempts |-> st.attempts]
    /\ UNCHANGED serviceVars
    /\ UNCHANGED <<max_history, current_job_operations, current_job_id, diskFault, clock,
                   jobOf, count>>

(***************************************************************************)
(* redo_last_operation()                                                   *)
(***************************************************************************)
redo_last_operation ==
    /\ IF redo_stack = <<>>
       THEN /\ result' = Result("redo_last_operation", "False")
            /\ UNCHANGED <<undo_stack, redo_stack, history_file, fs>>
       ELSE LET operation == Last(redo_stack)
                popped == Front(redo_stack)
                r == ApplyOperation(operation, fs, diskFault)
            IN  /\ fs' = r.fs
                /\ IF r.ok
                   THEN /\ redo_stack' = popped
                        /\ undo_stack' = DequeAppend(undo_stack, operation, max_history)
                        /\ history_file' = SaveHistory(undo_stack', redo_stack')
                        /\ result' = Result("redo_last_operation", "True")
                   ELSE /\ redo_stack' = DequeAppend(popped, operation, max_history)
                        /\ result' = Result("redo_last_operation", "False")
                        /\ UNCHANGED <<undo_stack, history_file>>
    /\ UNCHANGED serviceVars
    /\ UNCHANGED <<max_history, current_job_operations, current_job_id, diskFault, clock,
                   before, jobOf, count>>

(***************************************************************************)
(* clear_history()                                                         *)
(***************************************************************************)
clear_history ==
    /\ undo_stack' = <<>>
    /\ redo_stack' = <<>>
    /\ current_job_operations' = <<>>
    /\ history_file' = NoHistoryFile
    /\ result' = Result("clear_history", "None")
    /\ before' = NoSnapshot
    /\ UNCHANGED serviceVars
    /\ UNCHANGED <<max_history, current_job_id, fs, diskFault, clock, jobOf, count>>

(***************************************************************************)
(* The process ends (at any point, also inside an open job) and a new      *)
(* UndoManager is constructed on the same history file with the same cap:  *)
(* __init__ makes two empty deques and calls load_history.                 *)
(***************************************************************************)
Restart ==
    /\ LET loaded == LoadHistory(history_file, max_history)
       IN  /\ undo_stack' = loaded.undo
           /\ redo_stack' = loaded.redo
    /\ current_job_operations' = <<>>
    /\ current_job_id' = 0
    /\ result' = Result("__init__", "None")
    /\ before' = NoSnapshot
    /\ UNCHANGED serviceVars
    /\ UNCHANGED <<max_history, history_file, fs, diskFault, clock, jobOf, count>>

(***************************************************************************)
(* The environment: time passes; another program deletes a file; the       *)
(* filesystem starts or stops refusing writes.                             *)
(***************************************************************************)
Tick ==
    /\ clock < MaxTicks * TickStep
    /\ clock' = clock + TickStep
    /\ UNCHANGED serviceVars
    /\ UNCHANGED <<max_history, undo_stack, redo_stack, current_job_operations,
                   current_job_id, history_file, fs, diskFault, result, before, jobOf,
                   count>>

ExternalDelete(p) ==
    /\ fs[p] # NoFile
    /\ fs' = [fs EXCEPT ![p] = NoFile]
    /\ before' = NoSnapshot
    /\ UNCHANGED serviceVars
    /\ UNCHANGED <<max_history, undo_stack, redo_stack, current_job_operations,
                   current_job_id, history_file, diskFault, clock, result, jobOf, count>>

ToggleFault ==
    /\ diskFault' = ~diskFault
    /\ before' = NoSnapshot
    /\ UNCHANGED serviceVars
    /\ UNCHANGED <<max_history, undo_stack, redo_stack, current_job_operations,
                   current_job_id, history_file, fs, clock, result, jobOf, count>>

\* Another program (or a crash of the disk) damages one entry of the history
\* file: list is "undo_stack" or "redo_stack", k the position of the entry.
Damage(d, damage) ==
    IF damage = "timestamp" THEN [d EXCEPT !.timestamp = Unparsable]
    ELSE [d EXCEPT !.id = MissingField]

ExternalEdit(list, k, damage) ==
    /\ history_file.exists /\ history_file.valid
    /\ k \in 1..Len(history_file[list])
    /\ ~FromDictRaises(history_file[list][k])
    /\ history_file' = [history_file EXCEPT ![list][k] = Damage(@, damage)]
    /\ before' = NoSnapshot
    /\ UNCHANGED serviceVars
    /\ UNCHANGED <<max_history, undo_stack, redo_stack, current_job_operations,
                   current_job_id, fs, diskFault, clock, result, jobOf, count>>

(***************************************************************************)
(* Scanning service.                                                       *)
(*                                                                         *)
(* The tree: directory Root with the directories below it.  Parent gives   *)
(* the shape; a tree holds the directories of tree.dirs, each with a name, *)
(* and files, each in a directory with the suffix of its name, its size    *)
(* and its modification time.                                              *)
(***************************************************************************)
MaxSize == 2          \* largest file size and size filter
MaxDate == 3          \* latest modification time and date filter
MaxFaults == 1        \* files and directories that vanish during one scan
MaxCancelAt == 2      \* largest count at which the progress callback cancels

NoneArg == -1         \* None passed (or defaulted) as an argument
Root == 1
Parent == <<0, 1, 2, 1>>
DirNames == {"docs", ".git"}
DefaultExcludes == {".git", "__pycache__", ".venv", "node_modules"}
Suffixes == {".pdf", ".PDF", ".txt"}

\* str.lower() on a suffix
Lower(suffix) == IF suffix = ".PDF" THEN ".pdf" ELSE suffix

\* FileItem.extension: self.path.resolved.suffix
Extension(item) == tree.files[item.path].suffix

\* A set of ids as the list the directory listing gives (ascending)
RECURSIVE Listing(_)
Listing(S) ==
    IF S = {} THEN <<>>
    ELSE LET m == CHOOSE x \in S : \A y \in S : x <= y
         IN  <<m>> \o Listing(S \ {m})

RECURSIVE Beneath(_, _)
\* d is a, or lies beneath a
Beneath(d, a) == d = a \/ (d # Root /\ Beneath(Parent[d], a))

\* A path no longer exists when it or a directory above it vanished.
DirGone(d) == \E a \in gone.dirs : Beneath(d, a)
FileGone(f) == f \in gone.files \/ DirGone(tree.files[f].dir)

\* What os.walk lists in directory d
SubDirs(d) == Listing({ c \in tree.dirs : c # Root /\ Parent[c] = d /\ ~DirGone(c) })
FileNames(d) == Listing({ f \in DOMAIN tree.files : tree.files[f].dir = d /\ ~FileGone(f) })

\* exclude_dirs = exclude_dirs or {'.git', '__pycache__', '.venv', 'node_modules'}
Excludes(exclude_dirs) == IF exclude_dirs = {} THEN DefaultExcludes ELSE exclude_dirs

\* dir_names[:] = [d for d in dir_names if d not in exclude_dirs]
SelectNone(names, exclude_dirs, t) == names      \* variant with a fault: nothing is pruned
SelectNotExcluded(names, exclude_dirs, t) ==
    SelectSeq(names, LAMBDA d : t.name[d] \notin exclude_dirs)

\* "if self._cancelled:" at the head of the two loops
PolledNever(flag) == FALSE                       \* variant with a fault: flag not polled
Polled(flag) == flag

\* Python truth value of an Optional[int] argument: None and 0 are false
Truthy(x) == x # NoneArg /\ x # 0

(***************************************************************************)
(* _should_include_file.  The stat() of a vanished file raises OSError,    *)
(* which the method catches: it returns False.                             *)
(***************************************************************************)
ShouldIncludeFile(file, vanished, a) ==
    IF a.extensions # {} /\ Lower(file.suffix) \notin a.extensions THEN FALSE
    ELSE IF vanished THEN FALSE
    ELSE IF file.size < a.min_size THEN FALSE
    ELSE IF Truthy(a.max_size) /\ file.size > a.max_size THEN FALSE
    ELSE IF a.min_date # NoneArg /\ file.mtime < a.min_date THEN FALSE
    ELSE IF a.max_date # NoneArg /\ file.mtime > a.max_date THEN FALSE
    ELSE TRUE

\* _should_include_file reaches Path.stat(): the extension filter let the file through
StatReached(file, a) == a.extensions = {} \/ Lower(file.suffix) \in a.extensions

FileItem(f, t) == [path |-> f, size |-> t.files[f].size, modified |-> t.files[f].mtime]
FolderItem(d, t, names) == [path |-> d, name |-> t.name[d], file_count |-> Len(names)]
ScanResult(found, dirs, errs) ==
    [files |-> found, folders |-> dirs, total_count |-> Len(found), errors |-> errs]

NoArgs ==
    [extensions |-> {}, min_size |-> 0, max_size |-> NoneArg, min_date |-> NoneArg,
     max_date |-> NoneArg, exclude_dirs |-> {}, cancel_at |-> NoneArg]
NoMark == [set |-> FALSE, by_callback |-> FALSE, files |-> 0, visited |-> <<>>,
           early |-> FALSE]
NoResult == [files |-> <<>>, folders |-> <<>>, total_count |-> 0, errors |-> <<>>]
NoTree == [dirs |-> {Root}, name |-> [d \in {Root} |-> "docs"], files |-> <<>>]

\* ScanningService.__init__ for a given tree
ScannerWith(trees) ==
    /\ tree \in trees
    /\ gone = [files |-> {}, dirs |-> {}]
    /\ args = NoArgs
    /\ cancelled = FALSE
    /\ pc = "idle"
    /\ pending = <<>>
    /\ dir_names = <<>>
    /\ dir_path = 0
    /\ file_names = <<>>
    /\ files = <<>>
    /\ folders = <<>>
    /\ errors = <<>>
    /\ skipped_count = 0
    /\ scan_result = NoResult
    /\ visited = <<>>
    /\ cancel_mark = NoMark
    /\ io_errors = 0

ScannerIdle == ScannerWith({NoTree})

(***************************************************************************)
(* scan(root_path, ...) is called: the thread that runs it has entered the *)
(* method and has not yet executed its first statement.                    *)
(***************************************************************************)
scan(a) ==
    /\ pc = "idle"
    /\ args' = a
    /\ pc' = "called"
    /\ UNCHANGED <<tree, gone, cancelled, pending, dir_names, dir_path, file_names, files,
                   folders, errors, skipped_count, scan_result, visited, cancel_mark,
                   io_errors>>
    /\ UNCHANGED notScanVars

(***************************************************************************)
(* The first statements of scan: "self._cancelled = False", then the lists *)
(* are made and os.walk(root) is set up.  Of a cancel() that came before   *)
(* this point only the note that it came is left.                          *)
(***************************************************************************)
ScanEntry ==
    /\ pc = "called"
    /\ cancelled' = FALSE
    /\ files' = <<>>
    /\ folders' = <<>>
    /\ errors' = <<>>
    /\ skipped_count' = 0
    /\ pending' = <<Root>>
    /\ dir_names' = <<>>
    /\ pc' = "walk"
    /\ cancel_mark' = [NoMark EXCEPT !.early = cancel_mark.early]
    /\ UNCHANGED <<tree, gone, args, dir_path, file_names, scan_result, visited, io_errors>>
    /\ UNCHANGED notScanVars

(***************************************************************************)
(* "for dir_path, dir_names, file_names in os.walk(root.path)": os.walk    *)
(* pushes the directories left in dir_names, lists the next directory      *)
(* (one it cannot list is passed over in silence) and yields it; the loop  *)
(* body starts with the poll of the flag.  When os.walk is exhausted or    *)
(* the poll breaks the loop, scan returns the ScanResult.                  *)
(***************************************************************************)
WalkNext ==
    /\ pc = "walk"
    /\ LET stack == dir_names \o pending
       IN  IF stack = <<>> \/ (~DirGone(Head(stack)) /\ Polled(cancelled))
           THEN /\ scan_result' = ScanResult(files, folders, errors)
                /\ pc' = "returned"
                /\ UNCHANGED <<pending, dir_names, dir_path, file_names, visited>>
           ELSE IF DirGone(Head(stack))
           THEN /\ pending' = Tail(stack)
                /\ dir_names' = <<>>
                /\ UNCHANGED <<pc, dir_path, file_names, visited, scan_result>>
           ELSE /\ dir_path' = Head(stack)
                /\ pending' = Tail(stack)
                /\ dir_names' = SubDirs(Head(stack))
                /\ file_names' = FileNames(Head(stack))
                /\ visited' = Append(visited, Head(stack))
                /\ pc' = "folder"
                /\ UNCHANGED scan_result
    /\ UNCHANGED <<tree, gone, args, cancelled, files, folders, errors, skipped_count,
                   cancel_mark, io_errors>>
    /\ UNCHANGED notScanVars

(***************************************************************************)
(* The head of the loop body: prune dir_names, stat the directory and      *)
(* append its FolderItem; an OSError of the stat is recorded and the       *)
(* directory's files are passed over (continue).                           *)
(***************************************************************************)
Folder ==
    /\ pc = "folder"
    /\ dir_names' = SelectNotExcluded(dir_names, Excludes(args.exclude_dirs), tree)
    /\ IF DirGone(dir_path)
       THEN /\ errors' = Append(errors, <<"Cannot access directory", dir_path>>)
            /\ pc' = "walk"
            /\ UNCHANGED folders
       ELSE /\ folders' = Append(folders, FolderItem(dir_path, tree, file_names))
            /\ pc' = "file_poll"
            /\ UNCHANGED errors
    /\ UNCHANGED <<tree, gone, args, cancelled, pending, dir_path, file_names, files,
                   skipped_count, scan_result, visited, cancel_mark, io_errors>>
    /\ UNCHANGED notScanVars

(***************************************************************************)
(* "for file_name in file_names: if self._cancelled: break"                *)
(***************************************************************************)
FilePoll ==
    /\ pc = "file_poll"
    /\ pc' = IF file_names = <<>> \/ Polled(cancelled) THEN "walk" ELSE "file"
    /\ UNCHANGED <<tree, gone, args, cancelled, pending, dir_names, dir_path, file_names,
                   files, folders, errors, skipped_count, scan_result, visited,
                   cancel_mark, io_errors>>
    /\ UNCHANGED notScanVars

(***************************************************************************)
(* The filter: a file _should_include_file rejects is counted as skipped.  *)
(***************************************************************************)
FileFilter ==
    /\ pc = "file"
    /\ LET f == Head(file_names)
       IN  /\ io_errors' = IF StatReached(tree.files[f], args) /\ FileGone(f)
                           THEN io_errors + 1 ELSE io_errors
           /\ IF ShouldIncludeFile(tree.files[f], FileGone(f), args)
              THEN /\ pc' = "file_stat"
                   /\ UNCHANGED <<skipped_count, file_names>>
              ELSE /\ skipped_count' = skipped_count + 1
                   /\ file_names' = Tail(file_names)
                   /\ pc' = "file_poll"
    /\ UNCHANGED <<tree, gone, args, cancelled, pending, dir_names, dir_path, files,
                   folders, errors, scan_result, visited, cancel_mark>>
    /\ UNCHANGED notScanVars

(***************************************************************************)
(* The second stat() and the FileItem: the file is appended and the        *)
(* progress callback called with len(files) (the callback of the model     *)
(* calls cancel() once the count reaches args.cancel_at); an OSError of    *)
(* the stat is appended to errors.                                         *)
(***************************************************************************)
FileStat ==
    /\ pc = "file_stat"
    /\ LET f == Head(file_names)
       IN  IF FileGone(f)
           THEN /\ errors' = Append(errors, <<"Cannot read", f>>)
                /\ io_errors' = io_errors + 1
                /\ UNCHANGED <<files, cancelled, cancel_mark>>
           ELSE /\ files' = Append(files, FileItem(f, tree))
                /\ IF args.cancel_at # NoneArg /\ Len(files') >= args.cancel_at
                   THEN /\ cancelled' = TRUE
                        /\ cancel_mark' = IF cancel_mark.set THEN cancel_mark
                                          ELSE [set |-> TRUE, by_callback |-> TRUE,
                                                early |-> cancel_mark.early,
                                                files |-> Len(files'), visited |-> visited]
                   ELSE UNCHANGED <<cancelled, cancel_mark>>
                /\ UNCHANGED <<errors, io_errors>>
    /\ file_names' = Tail(file_names)
    /\ pc' = "file_poll"
    /\ UNCHANGED <<tree, gone, args, pending, dir_names, dir_path, folders, skipped_count,
                   scan_result, visited>>
    /\ UNCHANGED notScanVars

(***************************************************************************)
(* cancel(), called by another thread at any point.                        *)
(***************************************************************************)
cancel ==
    /\ pc # "returned"
    /\ ~cancelled \/ (pc = "called" /\ ~cancel_mark.early)
    /\ cancelled' = TRUE
    /\ cancel_mark' = IF pc = "idle" THEN cancel_mark
                      ELSE IF pc = "called" THEN [cancel_mark EXCEPT !.early = TRUE]
                      ELSE [set |-> TRUE, by_callback |-> FALSE,
                            early |-> cancel_mark.early,
                            files |-> Len(files), visited |-> visited]
    /\ UNCHANGED <<tree, gone, args, pc, pending, dir_names, dir_path, file_names, files,
                   folders, errors, skipped_count, scan_result, visited, io_errors>>
    /\ UNCHANGED notScanVars

(***************************************************************************)
(* The environment during a scan: a file or a directory vanishes.          *)
(***************************************************************************)
Faults == Cardinality(gone.files) + Cardinality(gone.dirs)

FileVanishes(f) ==
    /\ pc \notin {"idle", "returned"}
    /\ Faults < MaxFaults
    /\ ~FileGone(f)
    /\ gone' = [gone EXCEPT !.files = @ \cup {f}]
    /\ UNCHANGED <<tree, args, cancelled, pc, pending, dir_names, dir_path, file_names,
                   files, folders, errors, skipped_count, scan_result, visited,
                   cancel_mark, io_errors>>
    /\ UNCHANGED notScanVars

DirVanishes(d) ==
    /\ pc \notin {"idle", "returned"}
    /\ Faults < MaxFaults
    /\ d # Root
    /\ ~DirGone(d)
    /\ gone' = [gone EXCEPT !.dirs = @ \cup {d}]
    /\ UNCHANGED <<tree, args, cancelled, pc, pending, dir_names, dir_path, file_names,
                   files, folders, errors, skipped_count, scan_result, visited,
                   cancel_mark, io_errors>>
    /\ UNCHANGED notScanVars

(***************************************************************************)
(* Categorization service                                                  *)
(* (src/fileorganizer_pro/services/categorization_service.py).             *)
(*                                                                         *)
(* category_mappings is a dict category -> list of extensions, kept here   *)
(* as the sequence of its items in insertion order; _extension_map is the  *)
(* reverse index, a function from the extensions it holds to categories.   *)
(***************************************************************************)
MaxListed == 3        \* extensions listed in category_mappings, over all categories

default_category == "Other"
Categories == {"Documents", "Custom"}
RawExts == {".pdf", "PDF", ".jpg"}
CatSuffixes == Suffixes \cup {".jpg"}

\* DEFAULT_CATEGORY_MAPPINGS, cut down to two categories with one extension
\* each and the empty "Other"
DefaultCategoryMappings ==
    << [category |-> "Documents", extensions |-> <<".pdf">>],
       [category |-> "Images", extensions |-> <<".jpg">>],
       [category |-> "Other", extensions |-> <<>>] >>

\* ext.lower() if ext.startswith('.') else f'.{ext.lower()}'
Normalize(ext) == IF ext = "PDF" THEN ".pdf" ELSE Lower(ext)

NormalizeAll(extensions) == [k \in 1..Len(extensions) |-> Normalize(extensions[k])]

\* dict operations on the item sequence
Keys(mappings) == { mappings[k].category : k \in 1..Len(mappings) }
ItemOf(mappings, category) == CHOOSE k \in 1..Len(mappings) : mappings[k].category = category
RECURSIVE TotalListed(_)
TotalListed(mappings) ==
    IF mappings = <<>> THEN 0
    ELSE Len(Head(mappings).extensions) + TotalListed(Tail(mappings))

\* self._extension_map[ext] = category
SetItem(map, ext, category) ==
    [e \in DOMAIN map \cup {ext} |-> IF e = ext THEN category ELSE map[e]]

\* del self._extension_map[ext]
DelItem(map, ext) == [e \in DOMAIN map \ {ext} |-> map[e]]

InList(list, ext) == \E k \in 1..Len(list) : list[k] = ext

\* A list element that is not a str (the JSON number 5 of a configuration
\* file), written as a string no extension equals.  ext.lower() on it raises
\* AttributeError.
NotAString == "<5>"

LowerRaises(extensions) == InList(extensions, NotAString)

\* "for ext in extensions: self._extension_map[ext.lower()] = category": the
\* loop ends at the first element whose lower() raises
RECURSIVE MapExtensions(_, _, _)
MapExtensions(map, extensions, category) ==
    IF extensions = <<>> \/ Head(extensions) = NotAString THEN map
    ELSE MapExtensions(SetItem(map, Lower(Head(extensions)), category),
                       Tail(extensions), category)

(***************************************************************************)
(* _build_extension_map: the loop over category_mappings.items() assigns   *)
(* into the map that is there; an exception of the inner loop ends it.     *)
(***************************************************************************)
BuildRaises(mappings) ==
    \E k \in 1..Len(mappings) : LowerRaises(mappings[k].extensions)

RECURSIVE BuildExtensionMap(_, _)
BuildExtensionMap(map, mappings) ==
    IF mappings = <<>> THEN map
    ELSE LET built == MapExtensions(map, Head(mappings).extensions,
                                    Head(mappings).category)
         IN  IF LowerRaises(Head(mappings).extensions) THEN built
             ELSE BuildExtensionMap(built, Tail(mappings))

\* list.remove(ext): the first occurrence
RECURSIVE ListRemove(_, _)
ListRemove(list, ext) ==
    IF list = <<>> THEN <<>>
    ELSE IF Head(list) = ext THEN Tail(list)
    ELSE <<Head(list)>> \o ListRemove(Tail(list), ext)

\* "if extension in self._extension_map: ... else default"
LookupDefaultOnly(map, extension, default) == default    \* variant with a fault
Lookup(map, extension, default) ==
    IF extension \in DOMAIN map THEN map[extension] ELSE default

\* Category(name): an empty name is a ValueError
CategoryRaises(name) == name = ""

CatResult(call, file, category, raised) ==
    [call |-> call, file |-> file, category |-> category, raised |-> raised]

\* The second service before and after CategorizationService() built it
NoPeer == [built |-> FALSE, extension_map |-> <<>>]
Peer(map) == [built |-> TRUE, extension_map |-> map]

(***************************************************************************)
(* In-place changes of self.category_mappings (list.extend, list.remove,   *)
(* del, a new key) act on the dict object the attribute names: that is     *)
(* DEFAULT_CATEGORY_MAPPINGS itself as long as the service still has the   *)
(* object "category_mappings or DEFAULT_CATEGORY_MAPPINGS" gave it.        *)
(***************************************************************************)
SharedTable(shares, mappings, default) == IF shares THEN mappings ELSE default

\* __init__: "self.category_mappings = category_mappings or
\* DEFAULT_CATEGORY_MAPPINGS".  shares is TRUE for CategorizationService(),
\* which takes the module-level table itself, and FALSE for a service that
\* was handed a table of its own (here one with the default rules).
CategorizerWith(shares) ==
    /\ category_mappings = DefaultCategoryMappings
    /\ extension_map = BuildExtensionMap(<<>>, DefaultCategoryMappings)
    /\ cat_result = CatResult("__init__", "", "", FALSE)
    /\ default_mappings = DefaultCategoryMappings
    /\ shares_default = shares
    /\ peer = NoPeer

\* CategorizationService() with the default mappings
CategorizerIdle == CategorizerWith(TRUE)

(***************************************************************************)
(* categorize(file_item), for a file whose name has the given suffix       *)
(***************************************************************************)
categorize(suffix) ==
    /\ LET extension == Lower(suffix)
           category_name == Lookup(extension_map, extension, default_category)
       IN  cat_result' = IF CategoryRaises(category_name)
                         THEN CatResult("categorize", suffix, "", TRUE)
                         ELSE CatResult("categorize", suffix, category_name, FALSE)
    /\ UNCHANGED <<category_mappings, extension_map, default_mappings, shares_default, peer>>
    /\ UNCHANGED notCatVars

(***************************************************************************)
(* add_rule(category, extensions)                                          *)
(***************************************************************************)
add_rule(category, extensions) ==
    /\ TotalListed(category_mappings) + Len(extensions) <= MaxListed
    /\ LET normalized == NormalizeAll(extensions)
           with_key == IF category \in Keys(category_mappings) THEN category_mappings
                       ELSE Append(category_mappings,
                                   [category |-> category, extensions |-> <<>>])
           k == ItemOf(with_key, category)
       IN  /\ category_mappings' = [with_key EXCEPT ![k].extensions = @ \o normalized]
           /\ extension_map' = MapExtensions(extension_map, normalized, category)
    /\ default_mappings' = SharedTable(shares_default, category_mappings', default_mappings)
    /\ cat_result' = CatResult("add_rule", "", "", FALSE)
    /\ UNCHANGED <<shares_default, peer>>
    /\ UNCHANGED notCatVars

(***************************************************************************)
(* remove_rule(category, extensions): extensions is NoneList (None: the    *)
(* whole category) or a list                                               *)
(***************************************************************************)
NoneList == <<"None">>

RECURSIVE RemoveExtensions(_, _, _)
\* the loop "for ext in normalized" on the state st = [list, map]
RemoveExtensions(st, normalized, category) ==
    IF normalized = <<>> THEN st
    ELSE LET ext == Head(normalized)
         IN  RemoveExtensions(
                 [list |-> IF InList(st.list, ext) THEN ListRemove(st.list, ext) ELSE st.list,
                  map |-> IF ext \in DOMAIN st.map THEN DelItem(st.map, ext) ELSE st.map],
                 Tail(normalized), category)

remove_rule(category, extensions) ==
    /\ IF category \notin Keys(category_mappings)
       THEN UNCHANGED <<category_mappings, extension_map>>
       ELSE LET k == ItemOf(category_mappings, category)
            IN  IF extensions = NoneList
                THEN /\ category_mappings' =
                           SubSeq(category_mappings, 1, k - 1)
                              \o SubSeq(category_mappings, k + 1, Len(category_mappings))
                     /\ extension_map' =
                           [e \in { x \in DOMAIN extension_map : extension_map[x] # category }
                              |-> extension_map[e]]
                ELSE LET st == RemoveExtensions(
                                   [list |-> category_mappings[k].extensions,
                                    map |-> extension_map],
                                   NormalizeAll(extensions), category)
                     IN  /\ category_mappings' =
                               [category_mappings EXCEPT ![k].extensions = st.list]
                         /\ extension_map' = st.map
    /\ default_mappings' = SharedTable(shares_default, category_mappings', default_mappings)
    /\ cat_result' = CatResult("remove_rule", "", "", FALSE)
    /\ UNCHANGED <<shares_default, peer>>
    /\ UNCHANGED notCatVars

(***************************************************************************)
(* load_from_config(config_path): config.mappings is what json.load gives  *)
(* for the file; when the file cannot be opened or is not JSON             *)
(* (~config.readable) the exception is re-raised before anything was       *)
(* assigned.  An exception of _build_extension_map is re-raised as well,   *)
(* after the assignment of line 230 and the part of the loop that ran.     *)
(***************************************************************************)
load_from_config(config) ==
    /\ IF ~config.readable
       THEN /\ cat_result' = CatResult("load_from_config", "", "", TRUE)
            /\ UNCHANGED <<category_mappings, extension_map, shares_default>>
       ELSE /\ category_mappings' = config.mappings
            /\ shares_default' = FALSE
            /\ extension_map' = BuildExtensionMap(extension_map, config.mappings)
            /\ cat_result' = CatResult("load_from_config", "", "",
                                       BuildRaises(config.mappings))
    /\ UNCHANGED <<default_mappings, peer>>
    /\ UNCHANGED notCatVars

(***************************************************************************)
(* CategorizationService(): a second service is built with the default     *)
(* mappings; its category_mappings is DEFAULT_CATEGORY_MAPPINGS and its     *)
(* index is built from what the table holds at that time.                  *)
(***************************************************************************)
CategorizationService ==
    /\ ~peer.built
    /\ peer' = Peer(BuildExtensionMap(<<>>, default_mappings))
    /\ UNCHANGED <<category_mappings, extension_map, cat_result, default_mappings,
                   shares_default>>
    /\ UNCHANGED notCatVars

(***************************************************************************)
(* Duplicate detector (src/fileorganizer_pro/services/duplicate_service.py) *)
(* and the files it hashes.  A file of the list handed to                  *)
(* detect_duplicates is the FileItem of one path; the same FileItem may    *)
(* be listed more than once.                                               *)
(***************************************************************************)
MaxFiles == 4         \* length of the list handed to detect_duplicates

DupPaths == {"/a/x.txt", "/a/y.txt", "/b/x.txt", "/b/z.txt"}
Bytes == {"A", "B"}
Unreadable == "unreadable"    \* the file is missing or cannot be opened
Algorithms == {"md5", "sha256"}

\* hashlib.new(algorithm) ... hexdigest() of the bytes of a file
HexDigest(algorithm, bytes) ==
    IF algorithm = "md5"
    THEN (IF bytes = "A" THEN "7fc56270" ELSE "9d5ed678")
    ELSE (IF bytes = "A" THEN "559aead0" ELSE "df7e70e5")

\* FileHash(digest, algorithm)
FileHash(digest, algorithm) == [digest |-> digest, algorithm |-> algorithm]

\* FileReader.compute_hash raises for a file it cannot find or read
ComputeHashRaises(file, disk) == disk[file] = Unreadable

\* DuplicateService._compute_file_hash
ComputeFileHash(file, disk, algorithm) ==
    FileHash(HexDigest(algorithm, disk[file]), algorithm)

\* hash_map[digest].append(file_item) on the defaultdict(list), kept as the
\* sequence of its items in insertion order
HashMapAppend(hash_map, digest, file) ==
    IF \E k \in 1..Len(hash_map) : hash_map[k].digest = digest
    THEN [k \in 1..Len(hash_map) |->
            IF hash_map[k].digest = digest
            THEN [hash_map[k] EXCEPT !.file_list = Append(@, file)]
            ELSE hash_map[k]]
    ELSE Append(hash_map, [digest |-> digest, file_list |-> <<file>>])

(***************************************************************************)
(* The hashing loop of detect_duplicates on st = [hash_map, errors].  An   *)
(* exception of _compute_file_hash is caught per file: the file is not     *)
(* appended and its name goes to errors.  An exception of the progress     *)
(* callback is caught by the same handler, after the append.               *)
(***************************************************************************)
RECURSIVE HashAll(_, _, _, _, _)
HashAll(st, file_items, disk, algorithm, callback_raises) ==
    IF file_items = <<>> THEN st
    ELSE LET file_item == Head(file_items)
             next == IF ComputeHashRaises(file_item, disk)
                     THEN [st EXCEPT !.errors = Append(@, file_item)]
                     ELSE [hash_map |->
                              HashMapAppend(st.hash_map,
                                  ComputeFileHash(file_item, disk, algorithm).digest,
                                  file_item),
                           errors |-> IF callback_raises
                                      THEN Append(st.errors, file_item)
                                      ELSE st.errors]
         IN  HashAll(next, Tail(file_items), disk, algorithm, callback_raises)

\* DuplicateGroup(hash, files, original)
DuplicateGroup(hash, file_list, original) ==
    [hash |-> hash, files |-> file_list, original |-> original]

\* "if len(file_list) >= 2"
IsGroupAlways(file_list) == TRUE    \* variant with a fault
IsGroup(file_list) == Len(file_list) >= 2

\* "for hash_digest, file_list in hash_map.items(): if len(file_list) >= 2: ..."
RECURSIVE GroupDuplicates(_, _)
GroupDuplicates(hash_map, algorithm) ==
    IF hash_map = <<>> THEN <<>>
    ELSE LET item == Head(hash_map)
             rest == GroupDuplicates(Tail(hash_map), algorithm)
         IN  IF IsGroup(item.file_list)
             THEN <<DuplicateGroup(FileHash(item.digest, algorithm), item.file_list,
                                   item.file_list[1])>> \o rest
             ELSE rest

\* DuplicateGroup.duplicates: [f for f in self.files if f != self.original]
Duplicates(group) ==
    LET NotOriginal(f) == f # group.original
    IN  SelectSeq(group.files, NotOriginal)

\* sum(len(g.duplicates) for g in duplicate_groups) of get_duplicate_statistics
RECURSIVE TotalDuplicates(_)
TotalDuplicates(groups) ==
    IF groups = <<>> THEN 0
    ELSE Len(Duplicates(Head(groups))) + TotalDuplicates(Tail(groups))

DupResult(call, input, algorithm, groups, errs, total) ==
    [call |-> call, input |-> input, algorithm |-> algorithm, groups |-> groups,
     errors |-> errs, total_duplicates |-> total]

NoDupResult == DupResult("__init__", <<>>, "md5", <<>>, <<>>, 0)

DetectorWith(disks) ==
    /\ dup_disk \in disks
    /\ dup_result = NoDupResult

DetectorIdle == DetectorWith({[p \in DupPaths |-> "A"]})

(***************************************************************************)
(* detect_duplicates(files, progress_callback) on a service built with the *)
(* given hash_algorithm, followed by get_duplicate_statistics on what it   *)
(* returned.  The service keeps nothing between two calls: one call is     *)
(* followed per behaviour.                                                 *)
(***************************************************************************)
detect_duplicates(file_items, algorithm, callback_raises) ==
    /\ dup_result.call = "__init__"
    /\ LET st == HashAll([hash_map |-> <<>>, errors |-> <<>>], file_items, dup_disk,
                         algorithm, callback_raises)
           duplicate_groups == GroupDuplicates(st.hash_map, algorithm)
       IN  dup_result' = DupResult("detect_duplicates", file_items, algorithm,
                                   duplicate_groups, st.errors,
                                   TotalDuplicates(duplicate_groups))
    /\ UNCHANGED dup_disk
    /\ UNCHANGED notDupVars

(***************************************************************************)
(* Organization pass.  FileOrganizer.organize (services/__init__.py) and   *)
(* the pass of src/file_organizer_pro.py: process_files walks the source   *)
(* directory, process_single_file handles one file, generate_reports       *)
(* writes the reports.  pass_fs is the source directory: the directories   *)
(* made under it, its files (directory, name, the counter                  *)
(* get_unique_filename added to the name, bytes), the entries of           *)
(* duplicates_metadata.json and the report files.  The files are organized *)
(* by category (organization_mode "category").                             *)
(***************************************************************************)
MaxPasses == 2        \* organization passes on one source directory

SourceDir == "."
OutputBase == "Organized"
DuplicatesFolder == "Organized/Duplicates_RecycleBin"
SourceNames == {"x.txt", "y.txt", "p.jpg"}
OperationModes == {"move", "copy"}

\* get_file_category: the category whose extension set holds the lower-cased suffix
GetFileCategory(name) == IF name = "p.jpg" THEN "Images" ELSE "Documents"

\* get_destination_path for organization_mode "category": output_base / category
GetDestinationDir(name) ==
    IF GetFileCategory(name) = "Images" THEN "Organized/Images" ELSE "Organized/Documents"

FileEntry(dir, name, n, bytes) == [dir |-> dir, name |-> name, n |-> n, bytes |-> bytes]

PathExists(fsys, dir, name, n) ==
    \E e \in fsys.files : e.dir = dir /\ e.name = name /\ e.n = n

\* get_unique_filename: the path itself when nothing is there, else the first
\* free "<stem>_<counter><suffix>"
GetUniqueFilename(fsys, dir, name) ==
    CHOOSE n \in 0..MaxPasses :
        /\ ~PathExists(fsys, dir, name, n)
        /\ \A m \in 0..(n - 1) : PathExists(fsys, dir, name, m)

\* "if not self.dry_run.get():"
MutatesAlways(dry_run) == TRUE    \* variant with a fault
Mutates(dry_run) == ~dry_run

\* move_or_copy_file: shutil.move or shutil.copy2; both raise when the
\* directory of the destination does not exist
MoveOrCopyFile(fsys, operation_mode, entry, dir, n) ==
    IF dir \notin fsys.dirs THEN [fs |-> fsys, raised |-> TRUE]
    ELSE LET placed == FileEntry(dir, entry.name, n, entry.bytes)
         IN  [fs |-> [fsys EXCEPT !.files =
                         IF operation_mode = "move" THEN (@ \ {entry}) \cup {placed}
                         ELSE @ \cup {placed}],
              raised |-> FALSE]

\* calculate_md5: None when the file cannot be read
CalculateMd5(bytes) == IF bytes = Unreadable THEN "None" ELSE HexDigest("md5", bytes)

NoStats == [files_processed |-> 0, files_moved |-> 0, duplicates_found |-> 0, errors |-> 0]

NoPass == [pc |-> "idle", n |-> 0, dry_run |-> TRUE, operation_mode |-> "move",
           skip_duplicates |-> TRUE, is_processing |-> FALSE, all_files |-> <<>>,
           hash_database |-> {}, duplicate_groups |-> {}, stats |-> NoStats]

SourceWith(bytes) ==
    [dirs |-> {},
     files |-> { FileEntry(SourceDir, name, 0, bytes[name]) : name \in SourceNames },
     metadata |-> {},
     reports |-> {}]

OrganizerWith(sources) ==
    /\ pass_fs \in sources
    /\ pass = NoPass
    /\ org_result = [call |-> "__init__", dry_run |-> TRUE, raised |-> FALSE]

OrganizerIdle == OrganizerWith({SourceWith([name \in SourceNames |-> "A"])})

\* The files of the source directory itself; what lies under output_base is
\* skipped by the walk ("if str(output_base) in root: continue")
Walked(fsys) == { e \in fsys.files : e.dir = SourceDir }

(***************************************************************************)
(* FileOrganizer.organize(task): the first statement of the try block      *)
(* reads task.root_path, which an OrganizationTask does not have; the       *)
(* AttributeError is turned into a DomainException.                         *)
(***************************************************************************)
organize(dry_run) ==
    /\ org_result' = [call |-> "organize", dry_run |-> dry_run, raised |-> TRUE]
    /\ UNCHANGED <<pass_fs, pass>>
    /\ UNCHANGED notPassVars

(***************************************************************************)
(* start_organization and the head of process_files: the statistics are    *)
(* reset, the output folders are made unless this is a dry run, and the     *)
(* walk lists the files (in the order of the directory listing, which is   *)
(* any order).  With no file the pass is complete at once.                 *)
(***************************************************************************)
process_files(dry_run, operation_mode, skip_duplicates, order) ==
    /\ pass.pc \in {"idle", "done"}
    /\ pass.n < MaxPasses
    /\ Len(order) = Cardinality(Walked(pass_fs))
    /\ { order[k] : k \in 1..Len(order) } = { e.name : e \in Walked(pass_fs) }
    /\ pass_fs' = IF Mutates(dry_run)
                  THEN [pass_fs EXCEPT !.dirs = @ \cup {OutputBase, DuplicatesFolder}]
                  ELSE pass_fs
    /\ pass' = [pc |-> IF order = <<>> THEN "done" ELSE "files",
                n |-> pass.n + 1,
                dry_run |-> dry_run,
                operation_mode |-> operation_mode,
                skip_duplicates |-> skip_duplicates,
                is_processing |-> order # <<>>,
                all_files |-> order,
                hash_database |-> {},
                duplicate_groups |-> {},
                stats |-> NoStats]
    /\ UNCHANGED org_result
    /\ UNCHANGED notPassVars

(***************************************************************************)
(* One turn of "for file_path in all_files": process_single_file, whose    *)
(* exceptions are counted as errors by process_files.                      *)
(***************************************************************************)
process_single_file ==
    /\ pass.pc = "files"
    /\ pass.is_processing
    /\ pass.all_files # <<>>
    /\ LET name == Head(pass.all_files)
           entry == CHOOSE e \in Walked(pass_fs) : e.name = name
           file_hash == CalculateMd5(entry.bytes)
           counted == [pass EXCEPT !.all_files = Tail(@),
                                   !.stats.files_processed = @ + 1]
           failed == [counted EXCEPT !.stats.errors = @ + 1]
       IN  IF pass.skip_duplicates /\ file_hash = "None"
           THEN \* the hash could not be computed
                /\ pass' = failed
                /\ pass_fs' = pass_fs
           ELSE IF pass.skip_duplicates /\ file_hash \in pass.hash_database
           THEN \* a duplicate: to the recycle bin, with its metadata entry
                LET n == GetUniqueFilename(pass_fs, DuplicatesFolder, name)
                    found == [counted EXCEPT !.stats.duplicates_found = @ + 1,
                                             !.duplicate_groups = @ \cup {file_hash}]
                    moved == MoveOrCopyFile(pass_fs, pass.operation_mode, entry,
                                            DuplicatesFolder, n)
                IN  IF Mutates(pass.dry_run)
                    THEN IF moved.raised
                         THEN /\ pass' = [found EXCEPT !.stats.errors = @ + 1]
                              /\ pass_fs' = pass_fs
                         ELSE /\ pass' = found
                              /\ pass_fs' = [moved.fs EXCEPT !.metadata =
                                                @ \cup {<<name, n>>}]
                    ELSE /\ pass' = found
                         /\ pass_fs' = pass_fs
           ELSE \* an original: to the folder of its category
                LET dir == GetDestinationDir(name)
                    recorded == IF pass.skip_duplicates
                                THEN [counted EXCEPT !.hash_database = @ \cup {file_hash}]
                                ELSE counted
                    made == IF Mutates(pass.dry_run)
                            THEN [pass_fs EXCEPT !.dirs = @ \cup {dir}]
                            ELSE pass_fs
                    n == GetUniqueFilename(made, dir, name)
                    moved == MoveOrCopyFile(made, pass.operation_mode, entry, dir, n)
                IN  IF Mutates(pass.dry_run)
                    THEN IF moved.raised
                         THEN /\ pass' = [recorded EXCEPT !.stats.errors = @ + 1]
                              /\ pass_fs' = made
                         ELSE /\ pass' = [recorded EXCEPT !.stats.files_moved = @ + 1]
                              /\ pass_fs' = moved.fs
                    ELSE /\ pass' = [recorded EXCEPT !.stats.files_moved = @ + 1]
                         /\ pass_fs' = pass_fs
    /\ UNCHANGED org_result
    /\ UNCHANGED notPassVars

\* stop_organization(), from the GUI thread while the pass runs
stop_organization ==
    /\ pass.pc = "files"
    /\ pass.is_processing
    /\ pass' = [pass EXCEPT !.is_processing = FALSE]
    /\ UNCHANGED <<pass_fs, org_result>>
    /\ UNCHANGED notPassVars

(***************************************************************************)
(* The loop is over (no file left, or stopped): generate_reports writes    *)
(* the summary and, when duplicates were found, the duplicate report,      *)
(* unless this is a dry run; then processing_complete.                     *)
(***************************************************************************)
generate_reports ==
    /\ pass.pc = "files"
    /\ pass.all_files = <<>> \/ ~pass.is_processing
    /\ pass_fs' = IF Mutates(pass.dry_run)
                  THEN [pass_fs EXCEPT !.reports =
                           @ \cup {"organization_summary.txt"}
                             \cup (IF pass.duplicate_groups # {}
                                   THEN {"duplicate_report.txt"} ELSE {})]
                  ELSE pass_fs
    /\ pass' = [pass EXCEPT !.pc = "done", !.is_processing = FALSE]
    /\ UNCHANGED org_result
    /\ UNCHANGED notPassVars

(***************************************************************************)
(* File moves: FileOperations.move                                         *)
(* (infrastructure/filesystem/file_reader_writer.py) and move_or_copy_file *)
(* (file_organizer_pro.py), both on shutil.move.  shutil.move renames; *)
(* when os.rename raises OSError (the destination is on another volume)    *)
(* it copies the file (open the destination for writing, write the chunks) *)
(* and then unlinks the source.  vol is the two volumes: path -> the file  *)
(* there, its content named by id and its length in chunks.                *)
(***************************************************************************)
MaxChunks == 2        \* size of a file, in chunks of the copy loop
MaxMoves == 2         \* calls of move

MovePaths == {"/v1/a", "/v1/b", "/v2/a"}
Volume(path) == IF path = "/v2/a" THEN "v2" ELSE "v1"
Movers == {"FileOperations.move", "move_or_copy_file"}

Stored(id, chunks) == [id |-> id, chunks |-> chunks]
Nothing == Stored("", 0)

NoMove == [pc |-> "idle", via |-> "FileOperations.move", source |-> "/v1/a",
           destination |-> "/v1/a", original |-> Nothing, n |-> 0,
           raised |-> "", failed_at |-> ""]

\* what the caller sees: FileOperations.move re-raises FileNotFoundError and
\* wraps any other OSError; move_or_copy_file wraps every exception
Wrapped(via, exception) ==
    IF via = "move_or_copy_file" THEN "Exception"
    ELSE IF exception = "FileNotFoundError" THEN "FileNotFoundError"
    ELSE "OperationFailedError"

Fails(m, exception, at) ==
    [m EXCEPT !.pc = "done", !.raised = Wrapped(m.via, exception), !.failed_at = at]

MoverWith(volumes) ==
    /\ vol \in volumes
    /\ mv = NoMove

MoverIdle == MoverWith({[p \in MovePaths |-> Nothing]})

\* what shutil.copyfile does with the destination when a write fails: the
\* "with" blocks close the two files, nothing is removed
LeftBehind(file) == file

(***************************************************************************)
(* move(source, destination): FileOperations.move checks that the source   *)
(* exists and makes the parent directories; move_or_copy_file calls        *)
(* shutil.move at once.                                                    *)
(***************************************************************************)
move(via, source, destination) ==
    /\ mv.pc \in {"idle", "done"}
    /\ mv.n < MaxMoves
    /\ source # destination
    /\ LET called == [pc |-> "rename", via |-> via, source |-> source,
                      destination |-> destination, original |-> vol[source],
                      n |-> mv.n + 1, raised |-> "", failed_at |-> ""]
       IN  mv' = IF via = "FileOperations.move" /\ vol[source] = Nothing
                 THEN Fails(called, "FileNotFoundError", "exists")
                 ELSE called
    /\ UNCHANGED vol
    /\ UNCHANGED notMoveVars

\* os.rename(src, real_dst): atomic on one volume, OSError across volumes
Rename ==
    /\ mv.pc = "rename"
    /\ IF vol[mv.source] = Nothing
       THEN /\ mv' = Fails(mv, "FileNotFoundError", "rename")
            /\ UNCHANGED vol
       ELSE IF Volume(mv.source) = Volume(mv.destination)
       THEN /\ vol' = [vol EXCEPT ![mv.destination] = vol[mv.source],
                                  ![mv.source] = Nothing]
            /\ mv' = [mv EXCEPT !.pc = "done"]
       ELSE /\ mv' = [mv EXCEPT !.pc = "copy"]
            /\ UNCHANGED vol
    /\ UNCHANGED notMoveVars

\* copy2 -> copyfile: open(dst, 'wb') truncates or creates the destination
CopyOpen ==
    /\ mv.pc = "copy"
    /\ vol' = [vol EXCEPT ![mv.destination] = Stored(vol[mv.source].id, 0)]
    /\ mv' = [mv EXCEPT !.pc = IF vol[mv.source].chunks = 0 THEN "unlink" ELSE "write"]
    /\ UNCHANGED notMoveVars

\* one chunk written; after the last one copy2 returns
CopyWrite ==
    /\ mv.pc = "write"
    /\ vol' = [vol EXCEPT ![mv.destination].chunks = @ + 1]
    /\ mv' = [mv EXCEPT !.pc = IF vol[mv.destination].chunks + 1 = vol[mv.source].chunks
                               THEN "unlink" ELSE "write"]
    /\ UNCHANGED notMoveVars

\* a write raises OSError (disk full, I/O error): the exception leaves
\* copyfile, shutil.move and move
CopyFails ==
    /\ mv.pc = "write"
    /\ vol' = [vol EXCEPT ![mv.destination] = LeftBehind(@)]
    /\ mv' = Fails(mv, "OSError", "write")
    /\ UNCHANGED notMoveVars

\* os.unlink(src), which may raise (the source directory is read-only)
UnlinkSource(ok) ==
    /\ mv.pc = "unlink"
    /\ IF ok
       THEN /\ vol' = [vol EXCEPT ![mv.source] = Nothing]
            /\ mv' = [mv EXCEPT !.pc = "done"]
       ELSE /\ mv' = Fails(mv, "OSError", "unlink")
            /\ UNCHANGED vol
    /\ UNCHANGED notMoveVars

EngineIdle == DetectorIdle /\ OrganizerIdle /\ MoverIdle

ServicesIdle == ScannerIdle /\ CategorizerIdle /\ EngineIdle

(***************************************************************************)
(* Spec: single-step undo and redo of every kind of operation, with        *)
(* external deletions and a filesystem that may refuse writes.             *)
(***************************************************************************)
CoreInputs == { i \in OpInputs : i.metadata.kind # "path" }

Next ==
    \/ \E i \in CoreInputs : count.ops < CoreOps /\ record_operation(i)
    \/ undo_last_operation
    \/ redo_last_operation
    \/ \E p \in Paths : ExternalDelete(p)
    \/ ToggleFault

AnyFiles == [Paths -> {NoFile} \cup Contents]
OwnFiles == {[p \in Paths |-> p]}

Init == InitWith(1..CoreCap, AnyFiles) /\ ServicesIdle

Spec == Init /\ [][Next]_vars

(***************************************************************************)
(* SpecJobs: jobs of moves recorded while time passes and undone as a job, *)
(* with external deletions.  The caller keeps to the protocol start_job,   *)
(* record_operation ..., end_job; every path holds a file at the start.    *)
(***************************************************************************)
MoveInputs == { i \in OpInputs : i.operation_type = "move" }

NextJobs ==
    \/ current_job_id = 0 /\ start_job
    \/ \E i \in MoveInputs : current_job_id # 0 /\ record_operation(i)
    \/ current_job_id # 0 /\ end_job(TRUE)
    \/ undo_last_job
    \/ Tick
    \/ \E p \in Paths : ExternalDelete(p)

InitJobs == InitWith({MaxCap}, OwnFiles) /\ ServicesIdle

SpecJobs == InitJobs /\ [][NextJobs]_vars

(***************************************************************************)
(* SpecPersist: the history file across saves, process restarts and        *)
(* clear_history, for operations with every shape of metadata.             *)
(***************************************************************************)
NextPersist ==
    \/ \E i \in OpInputs : count.ops < CoreOps /\ record_operation(i)
    \/ \E save_to_disk \in BOOLEAN : end_job(save_to_disk)
    \/ undo_last_operation
    \/ redo_last_operation
    \/ clear_history
    \/ Restart

InitPersist == InitWith(1..CoreCap, OwnFiles) /\ ServicesIdle

SpecPersist == InitPersist /\ [][NextPersist]_vars

(***************************************************************************)
(* SpecRestart: jobs of moves whose process may end at any point (also     *)
(* inside an open job) and whose history file may be damaged between two   *)
(* runs.                                                                   *)
(***************************************************************************)
NextRestart ==
    \/ current_job_id = 0 /\ start_job
    \/ \E i \in MoveInputs : current_job_id # 0 /\ record_operation(i)
    \/ current_job_id # 0 /\ end_job(TRUE)
    \/ undo_last_operation
    \/ \E list \in {"undo_stack", "redo_stack"}, k \in 1..MaxCap, damage \in Damages :
          ExternalEdit(list, k, damage)
    \/ Restart

InitRestart == InitWith({MaxCap}, OwnFiles) /\ ServicesIdle

SpecRestart == InitRestart /\ [][NextRestart]_vars

(***************************************************************************)
(* SpecHistory: moves recorded while time passes, undone one by one or as  *)
(* a job and redone, with external deletions (reversals that fail) and     *)
(* process restarts, under every cap from 1 to CoreCap.                    *)
(***************************************************************************)
NextHistory ==
    \/ \E i \in MoveInputs : record_operation(i)
    \/ undo_last_operation
    \/ undo_last_job
    \/ redo_last_operation
    \/ Tick
    \/ \E p \in Paths : ExternalDelete(p)
    \/ Restart

InitHistory == InitWith(1..CoreCap, OwnFiles) /\ ServicesIdle

SpecHistory == InitHistory /\ [][NextHistory]_vars

(***************************************************************************)
(* SpecDelete: recorded deletions and their single-step undo.  The caller  *)
(* records the path the file was deleted from as source, where it went     *)
(* (the same path, or another one such as a trash folder) as destination,  *)
(* and may record the location of a backup copy in the metadata.           *)
(***************************************************************************)
BackupPath == 3
DeletePaths == Paths \cup {BackupPath}

DeleteInputs ==
    [operation_type : {"delete"}, source : Paths, destination : Paths,
     metadata : {NoMeta, [kind |-> "str", backup_path |-> BackupPath]}]

NextDelete ==
    \/ \E i \in DeleteInputs : count.ops < CoreOps /\ record_operation(i)
    \/ undo_last_operation
    \/ \E p \in DeletePaths : ExternalDelete(p)

DeleteFiles == [DeletePaths -> {NoFile} \cup Contents]

InitDelete == InitWith({CoreCap}, DeleteFiles) /\ ServicesIdle

SpecDelete == InitDelete /\ [][NextDelete]_vars

(***************************************************************************)
(* SpecScan: one scan of a tree of four directories (2 and 4 in the root,  *)
(* 3 in 2) with any names, five files in them, while another thread may    *)
(* call cancel() and files or directories may vanish.                      *)
(***************************************************************************)
WalkFiles ==
    << [dir |-> 1, suffix |-> ".pdf", size |-> 1, mtime |-> 1],
       [dir |-> 1, suffix |-> ".txt", size |-> 2, mtime |-> 2],
       [dir |-> 2, suffix |-> ".pdf", size |-> 1, mtime |-> 1],
       [dir |-> 3, suffix |-> ".pdf", size |-> 1, mtime |-> 1],
       [dir |-> 4, suffix |-> ".pdf", size |-> 1, mtime |-> 1] >>

WalkTrees == [dirs : {1..4}, name : [1..4 -> DirNames], files : {WalkFiles}]

WalkArgs ==
    [extensions : {{}, {".pdf"}}, min_size : {0}, max_size : {NoneArg},
     min_date : {NoneArg}, max_date : {NoneArg}, exclude_dirs : {{}, {"docs"}},
     cancel_at : {NoneArg} \cup 1..MaxCancelAt]

NextScan ==
    \/ \E a \in WalkArgs : scan(a)
    \/ ScanEntry
    \/ WalkNext
    \/ Folder
    \/ FilePoll
    \/ FileFilter
    \/ FileStat
    \/ cancel
    \/ \E f \in DOMAIN tree.files : FileVanishes(f)
    \/ \E d \in tree.dirs : DirVanishes(d)

ManagerIdle == InitWith({1}, OwnFiles)

InitScan == ManagerIdle /\ ScannerWith(WalkTrees) /\ CategorizerIdle /\ EngineIdle

SpecScan == InitScan /\ [][NextScan]_vars

(***************************************************************************)
(* SpecFilter: one scan of a single directory holding a file of any        *)
(* suffix, size and modification time (and a second, fixed one) under any  *)
(* combination of the extension, size and date filters.                    *)
(***************************************************************************)
FilterTrees ==
    [dirs : {{Root}}, name : {[d \in {Root} |-> "docs"]},
     files : { << file, [dir |-> Root, suffix |-> ".txt", size |-> 1, mtime |-> 2] >> :
                 file \in [dir : {Root}, suffix : Suffixes, size : 0..MaxSize,
                           mtime : 1..MaxDate] }]

FilterArgs ==
    [extensions : {{}, {".pdf"}}, min_size : 0..1, max_size : {NoneArg} \cup 0..1,
     min_date : {NoneArg, 2}, max_date : {NoneArg, 2}, exclude_dirs : {{}},
     cancel_at : {NoneArg}]

NextFilter ==
    \/ \E a \in FilterArgs : scan(a)
    \/ ScanEntry
    \/ WalkNext
    \/ Folder
    \/ FilePoll
    \/ FileFilter
    \/ FileStat

InitFilter == ManagerIdle /\ ScannerWith(FilterTrees) /\ CategorizerIdle /\ EngineIdle

SpecFilter == InitFilter /\ [][NextFilter]_vars

(***************************************************************************)
(* SpecCategorize: one service, built with a table of its own that holds   *)
(* the default rules, under any sequence of add_rule, remove_rule,         *)
(* load_from_config and categorize.                                        *)
(***************************************************************************)
ExtensionLists == { <<e>> : e \in RawExts } \cup { <<".pdf", ".jpg">> }

Configs ==
    { [readable |-> TRUE,
       mappings |-> << [category |-> "Custom", extensions |-> <<".pdf">>] >>],
      [readable |-> TRUE,
       mappings |-> << [category |-> "Images", extensions |-> <<".jpg">>],
                       [category |-> "Custom", extensions |-> <<".txt">>] >>],
      [readable |-> TRUE,
       mappings |-> << [category |-> "Custom", extensions |-> <<".txt", NotAString>>],
                       [category |-> "Images", extensions |-> <<".jpg">>] >>],
      [readable |-> FALSE, mappings |-> <<>>] }

NextCategorize ==
    \/ \E suffix \in CatSuffixes : categorize(suffix)
    \/ \E category \in Categories, extensions \in ExtensionLists :
          add_rule(category, extensions)
    \/ \E category \in Categories, extensions \in ExtensionLists \cup {NoneList} :
          remove_rule(category, extensions)
    \/ \E config \in Configs : load_from_config(config)

InitCategorize == ManagerIdle /\ ScannerIdle /\ CategorizerWith(FALSE) /\ EngineIdle

SpecCategorize == InitCategorize /\ [][NextCategorize]_vars

(***************************************************************************)
(* SpecInstances: rule changes on a service built by                       *)
(* CategorizationService() while a second service is built, before or      *)
(* after them, in the same way.                                            *)
(***************************************************************************)
NextInstances ==
    \/ \E category \in Categories, extensions \in ExtensionLists :
          add_rule(category, extensions)
    \/ \E category \in Categories, extensions \in ExtensionLists \cup {NoneList} :
          remove_rule(category, extensions)
    \/ CategorizationService

InitInstances == ManagerIdle /\ ScannerIdle /\ CategorizerIdle /\ EngineIdle

SpecInstances == InitInstances /\ [][NextInstances]_vars

(***************************************************************************)
(* SpecDuplicates: detect_duplicates on any list of at most MaxFiles of    *)
(* four files, each holding one of two byte strings or unreadable.         *)
(***************************************************************************)
RECURSIVE ListsOf(_, _)
ListsOf(S, n) ==
    IF n = 0 THEN {<<>>}
    ELSE LET shorter == ListsOf(S, n - 1)
         IN  shorter \cup { Append(l, x) : l \in { m \in shorter : Len(m) = n - 1 }, x \in S }

DupDisks == [DupPaths -> Bytes \cup {Unreadable}]

NextDuplicates ==
    /\ dup_result = NoDupResult
    /\ \E file_items \in ListsOf(DupPaths, MaxFiles), algorithm \in Algorithms,
          callback_raises \in BOOLEAN :
           detect_duplicates(file_items, algorithm, callback_raises)

InitDuplicates ==
    ManagerIdle /\ ScannerIdle /\ CategorizerIdle /\ DetectorWith(DupDisks) /\ OrganizerIdle
        /\ MoverIdle

SpecDuplicates == InitDuplicates /\ [][NextDuplicates]_vars

(***************************************************************************)
(* SpecOrganize: up to MaxPasses passes over a source directory of three   *)
(* files (two of them with the same bytes unless one cannot be read), each *)
(* as a dry run or not, moving or copying, with or without duplicate       *)
(* detection, and calls of FileOrganizer.organize.                         *)
(***************************************************************************)
Sources ==
    { SourceWith([name \in SourceNames |->
                    IF name = "p.jpg" THEN "B" ELSE IF name = "y.txt" THEN b ELSE "A"]) :
        b \in {"A", Unreadable} }

NextOrganize ==
    \/ \E dry_run \in BOOLEAN : organize(dry_run)
    \/ \E dry_run \in BOOLEAN, operation_mode \in OperationModes,
          skip_duplicates \in BOOLEAN, order \in ListsOf(SourceNames, Cardinality(SourceNames)) :
            process_files(dry_run, operation_mode, skip_duplicates, order)
    \/ process_single_file
    \/ stop_organization
    \/ generate_reports

InitOrganize ==
    ManagerIdle /\ ScannerIdle /\ CategorizerIdle /\ DetectorIdle /\ OrganizerWith(Sources)
        /\ MoverIdle

SpecOrganize == InitOrganize /\ [][NextOrganize]_vars

(***************************************************************************)
(* SpecMove: up to MaxMoves moves between three paths on two volumes; the  *)
(* file to move has 1..MaxChunks chunks, the other paths hold a file or    *)
(* nothing, and a write or the unlink of a copy-then-delete may fail.      *)
(***************************************************************************)
Volumes ==
    { [p \in MovePaths |->
         IF p = "/v1/a" THEN Stored("X", chunks)
         ELSE IF p = "/v1/b" THEN b ELSE c] :
        chunks \in 1..MaxChunks, b \in {Nothing, Stored("Y", 1)},
        c \in {Nothing, Stored("Z", 1)} }

NextMove ==
    \/ \E via \in Movers, source \in MovePaths, destination \in MovePaths :
          move(via, source, destination)
    \/ Rename
    \/ CopyOpen
    \/ CopyWrite
    \/ CopyFails
    \/ \E ok \in BOOLEAN : UnlinkSource(ok)

InitMove ==
    ManagerIdle /\ ScannerIdle /\ CategorizerIdle /\ DetectorIdle /\ OrganizerIdle
        /\ MoverWith(Volumes)

SpecMove == InitMove /\ [][NextMove]_vars

(***************************************************************************)
(* Properties of the transaction log.                                      *)
(***************************************************************************)
Range(q) == { q[k] : k \in 1..Len(q) }
IsMove(op) == op.operation_type = "move"

\* A step of record_operation: the only action that counts an operation.
RecordStep == count'.ops = count.ops + 1

\* The operation a record_operation step has just recorded: the one it
\* appended to the job buffer, the n-th UndoOperation built, stamped now.
Recorded(op) ==
    /\ op = Last(current_job_operations')
    /\ op.seq = count'.ops
    /\ op.timestamp = clock

\* C1: record_operation leaves the redo stack empty and the recorded
\* operation on top of the undo stack; the next redo_last_operation after a
\* record_operation (whatever happened on the filesystem meanwhile) returns
\* False and changes neither stack nor the filesystem.
C1_RecordClearsRedo ==
    [][ /\ RecordStep =>
                 /\ redo_stack' = <<>>
                 /\ undo_stack' # <<>>
                 /\ Recorded(Last(undo_stack'))
        /\ (result.call = "record_operation" /\ redo_last_operation) =>
                 /\ result'.ret = "False"
                 /\ UNCHANGED <<undo_stack, redo_stack, fs>> ]_vars

\* C1 witness: an operation was recorded after an undo (the file saved by the
\* undo still lists a redo entry) and the redo stack is empty.
C1_Witness ==
    /\ result.call = "record_operation"
    /\ history_file.exists /\ history_file.redo_stack # <<>>
    /\ redo_stack = <<>>
    /\ undo_stack # <<>>

\* C2: undo_last_operation on an empty undo stack returns False and changes
\* nothing; otherwise it reverses the top entry: when the reversal succeeds
\* the entry leaves the undo stack, becomes the top of the redo stack and True
\* is returned; when it fails (False result or exception) both stacks are as
\* they were, entry back on top, and the caller gets False or the exception.
C2_UndoLastOperation ==
    [][ undo_last_operation =>
          IF undo_stack = <<>>
          THEN result'.ret = "False" /\ UNCHANGED <<undo_stack, redo_stack, fs>>
          ELSE LET r == ReverseOperation(Last(undo_stack), fs, diskFault)
               IN  /\ (r.ok /\ ~r.raised) =>
                         /\ result'.ret = "True"
                         /\ undo_stack' = Front(undo_stack)
                         /\ redo_stack' # <<>>
                         /\ Last(redo_stack') = Last(undo_stack)
                         /\ Front(redo_stack') = redo_stack
                   /\ ~r.ok =>
                         /\ result'.ret = IF r.raised THEN "raised" ELSE "False"
                         /\ UNCHANGED <<undo_stack, redo_stack>> ]_vars

\* C2 witness: a reversal failed with other entries on both stacks, and the
\* stacks are what they were when undo_last_operation was called.
C2_Witness ==
    /\ result.call = "undo_last_operation"
    /\ result.ret \in {"False", "raised"}
    /\ before.valid
    /\ before.undo # <<>> /\ before.redo # <<>>
    /\ undo_stack = before.undo /\ redo_stack = before.redo

\* C3: when the top of the undo stack is a Move from S to D, the moved file
\* is still at D and the filesystem accepts the move back, undo_last_operation
\* returns True, the file is at S with the content that was at D, and nothing
\* is at D.
C3_UndoMoveRoundTrip ==
    [][ ( /\ undo_last_operation
          /\ undo_stack # <<>>
          /\ IsMove(Last(undo_stack))
          /\ fs[Last(undo_stack).destination] # NoFile
          /\ ~diskFault )
        => LET op == Last(undo_stack)
           IN  /\ result'.ret = "True"
               /\ fs'[op.source] = fs[op.destination]
               /\ fs'[op.destination] = NoFile ]_vars

\* C3 witness: a Move whose source was vacant and whose destination held the
\* file has been undone: the file is back at the source, the destination empty.
C3_Witness ==
    /\ result.call = "undo_last_operation" /\ result.ret = "True"
    /\ before.valid /\ before.undo # <<>>
    /\ IsMove(Last(before.undo))
    /\ before.fs[Last(before.undo).source] = NoFile
    /\ before.fs[Last(before.undo).destination] # NoFile
    /\ fs[Last(before.undo).source] = before.fs[Last(before.undo).destination]
    /\ fs[Last(before.undo).destination] = NoFile

\* C4: a redo_last_operation that directly follows the successful
\* undo_last_operation of a Move, with no external filesystem change between
\* them, returns True and restores the state the undo started from: the file
\* is at the destination with its content and not at the source, the undo
\* stack and the redo stack are what they were before the undo (the operation
\* on top of the undo stack), and when the source was vacant before the undo
\* the whole filesystem is what it was.
C4_RedoRoundTrip ==
    [][ ( /\ redo_last_operation
          /\ result.call = "undo_last_operation" /\ result.ret = "True"
          /\ before.valid
          /\ IsMove(Last(before.undo)) )
        => LET op == Last(before.undo)
           IN  /\ result'.ret = "True"
               /\ fs'[op.destination] = before.fs[op.destination]
               /\ fs'[op.source] = NoFile
               /\ undo_stack' = before.undo
               /\ redo_stack' = before.redo
               /\ (before.fs[op.source] = NoFile => fs' = before.fs) ]_vars

\* C4 witness: a Move was undone and redone with entries already on the redo
\* stack; stacks and filesystem are those of before the undo.
C4_Witness ==
    /\ result.call = "redo_last_operation" /\ result.ret = "True"
    /\ before.valid /\ before.undo # <<>> /\ before.redo # <<>>
    /\ IsMove(Last(before.undo))
    /\ undo_stack = before.undo /\ redo_stack = before.redo
    /\ fs = before.fs

\* C7 (as claimed): when the destination of the recorded Move on top of the
\* undo stack has been deleted, undo_last_operation returns False, the source
\* still does not exist, and the entry is no longer on the undo stack.
C7_EntryConsumed ==
    [][ ( /\ undo_last_operation
          /\ undo_stack # <<>>
          /\ IsMove(Last(undo_stack))
          /\ fs[Last(undo_stack).destination] = NoFile
          /\ fs[Last(undo_stack).source] = NoFile )
        => /\ result'.ret = "False"
           /\ fs'[Last(undo_stack).source] = NoFile
           /\ Last(undo_stack) \notin Range(undo_stack') ]_vars

\* C7 (amended): when the destination of the recorded Move on top of the undo
\* stack has been deleted, undo_last_operation returns False, the source still
\* does not exist, the filesystem and the redo stack are unchanged, and the
\* entry is back on top of the undo stack, which is what it was.
C7_EntryPutBack ==
    [][ ( /\ undo_last_operation
          /\ undo_stack # <<>>
          /\ IsMove(Last(undo_stack))
          /\ fs[Last(undo_stack).destination] = NoFile
          /\ fs[Last(undo_stack).source] = NoFile )
        => /\ result'.ret = "False"
           /\ fs'[Last(undo_stack).source] = NoFile
           /\ UNCHANGED <<undo_stack, redo_stack, fs>> ]_vars

\* C7 witness: undo_last_operation returned False on a Move whose destination
\* and source were both missing, and the entry is on top of the undo stack.
C7_Witness ==
    /\ result.call = "undo_last_operation" /\ result.ret = "False"
    /\ before.valid /\ before.undo # <<>>
    /\ IsMove(Last(before.undo))
    /\ before.fs[Last(before.undo).destination] = NoFile
    /\ before.fs[Last(before.undo).source] = NoFile
    /\ undo_stack # <<>> /\ Last(undo_stack) = Last(before.undo)

JobEntries(stack, job) == { k \in 1..Len(stack) : jobOf[stack[k].seq] = job }
JobSeqs(stack, job) == { stack[k].seq : k \in JobEntries(stack, job) }

\* The most recent job is closed and its latest operation is on top of the
\* undo stack.
LastJobOnTop ==
    /\ current_job_id = 0
    /\ count.jobs > 0
    /\ undo_stack # <<>>
    /\ jobOf[Last(undo_stack).seq] = count.jobs

\* C5: undo_last_job hands the operations to _reverse_operation in strict
\* reverse order of recording: of two operations it attempts, the one
\* recorded later is attempted first.
C5_ReverseRecordingOrder ==
    result.call = "undo_last_job" =>
        \A j, k \in 1..Len(result.attempts) :
            j < k => result.attempts[j] > result.attempts[k]

\* C6: undo_last_job attempts every operation of the most recent job, also
\* after a failed reversal: successful + failed = total = the number of
\* operations of the job on the undo stack, each of them is attempted, and
\* success is reported only when failed = 0.
C6_AllOfTheJobAttempted ==
    [][ (undo_last_job /\ LastJobOnTop)
        => /\ result'.successful + result'.failed = result'.total
           /\ result'.total = Cardinality(JobEntries(undo_stack, count.jobs))
           /\ JobSeqs(undo_stack, count.jobs) \subseteq Range(result'.attempts)
           /\ (result'.ret = "True" <=> result'.failed = 0) ]_vars

\* C8: undo_last_job reverses exactly the operations of the most recent job:
\* every one of them is attempted, and no operation of an earlier job is
\* attempted or leaves the undo stack.
C8_ExactlyTheLastJob ==
    [][ (undo_last_job /\ LastJobOnTop)
        => /\ Range(result'.attempts) = JobSeqs(undo_stack, count.jobs)
           /\ \A k \in 1..Len(undo_stack) :
                 jobOf[undo_stack[k].seq] # count.jobs
                    => undo_stack[k] \in Range(undo_stack') ]_vars

(***************************************************************************)
(* Persistence.                                                            *)
(***************************************************************************)
SameOperation(a, b) ==
    /\ a.id = b.id
    /\ a.operation_type = b.operation_type
    /\ a.source = b.source
    /\ a.destination = b.destination
    /\ a.metadata = b.metadata
    /\ a.timestamp = b.timestamp

SameStack(a, b) ==
    /\ Len(a) = Len(b)
    /\ \A k \in 1..Len(a) : SameOperation(a[k], b[k])

\* C10: a manager constructed on the history file right after end_job() (with
\* the default save) has the undo and redo stacks of the manager that saved:
\* the same operations in the same order, each with the same id, kind, source,
\* destination, metadata and timestamp.
C10_PersistenceRoundTrip ==
    [][ (result.call = "end_job" /\ Restart)
        => /\ SameStack(undo_stack', undo_stack)
           /\ SameStack(redo_stack', redo_stack) ]_vars

WellFormed(d) == ~FromDictRaises(d)
WellFormedEntries(entries) == SelectSeq(entries, WellFormed)

\* C11: a manager constructed on a history file (a complete JSON document)
\* in which some entries are malformed has on its undo stack every well-formed
\* entry of the file's undo list and on its redo stack every well-formed entry
\* of the file's redo list, in the order of the file, whatever the position of
\* the malformed entries.
C11_MalformedSkippedOnly ==
    [][ (Restart /\ history_file.exists /\ history_file.valid)
        => /\ SameStack(undo_stack', FromDicts(WellFormedEntries(history_file.undo_stack)))
           /\ SameStack(redo_stack', FromDicts(WellFormedEntries(history_file.redo_stack))) ]_vars

\* C12: when the process ends inside an open job after one or more
\* record_operation calls, every operation of the job that was on the undo
\* stack is on the undo stack of the manager constructed afterwards on the
\* same history file.
C12_InterruptedRunReversible ==
    [][ (Restart /\ current_job_id # 0 /\ current_job_operations # <<>>)
        => \A op \in Range(current_job_operations) \cap Range(undo_stack) :
              \E k \in 1..Len(undo_stack') : SameOperation(undo_stack'[k], op) ]_vars

IsDelete(op) == op.operation_type = "delete"

\* C13: undo_last_operation on a recorded Delete returns True exactly when a
\* backup location is recorded in the metadata and a file exists there; then
\* the content of the backup is at the source path of the operation (where the
\* file was deleted from); otherwise the filesystem and the undo stack are
\* unchanged (the entry stays on top).
C13_DeleteRestoredAtSource ==
    [][ (undo_last_operation /\ undo_stack # <<>> /\ IsDelete(Last(undo_stack)))
        => LET op == Last(undo_stack)
               backup_path == op.metadata.backup_path
               available == backup_path # 0 /\ fs[backup_path] # NoFile
           IN  /\ result'.ret = Bool(available)
               /\ available => fs'[op.source] = fs[backup_path]
               /\ ~available => UNCHANGED <<fs, undo_stack>> ]_vars

(***************************************************************************)
(* Properties of the scanning service.                                     *)
(***************************************************************************)
Returned == pc = "returned"

\* C14: when scan was given an extension filter E, every file of the returned
\* ScanResult has its extension (FileItem.extension) in E, whatever the letter
\* case of the file name.
C14_ExtensionInFilter ==
    (Returned /\ args.extensions # {})
        => \A k \in 1..Len(scan_result.files) :
              Extension(scan_result.files[k]) \in args.extensions

\* C15: every file of the returned ScanResult passes all filters: its size is
\* at least min_size, at most max_size when a max_size is given (0 included),
\* its modification time is not before min_date nor after max_date when these
\* are given; and a file the filter rejects is skipped without an entry in
\* the error list.
C15_AllFiltersTogether ==
    /\ [](Returned =>
            \A k \in 1..Len(scan_result.files) :
               LET item == scan_result.files[k]
               IN  /\ item.size >= args.min_size
                   /\ args.max_size # NoneArg => item.size <= args.max_size
                   /\ args.min_date # NoneArg => item.modified >= args.min_date
                   /\ args.max_date # NoneArg => item.modified <= args.max_date)
    /\ [][skipped_count' # skipped_count => errors' = errors]_vars

\* The exclude set in force, and the directories that carry an excluded name
ExcludeSet == Excludes(args.exclude_dirs)
ExcludedDirs == { a \in tree.dirs : tree.name[a] \in ExcludeSet }

\* d is one of the directories of tops, or lies beneath one
Within(d, tops) == \E a \in tops : Beneath(d, a)

\* Nothing collected so far, nor visited, nor returned, is within tops
NothingWithin(tops) ==
    /\ \A k \in 1..Len(folders) : ~Within(folders[k].path, tops)
    /\ \A k \in 1..Len(files) : ~Within(tree.files[files[k].path].dir, tops)
    /\ \A k \in 1..Len(visited) : ~Within(visited[k], tops)
    /\ Returned =>
          /\ scan_result.files = files
          /\ scan_result.folders = folders
          /\ scan_result.total_count = Len(files)

C17_EveryFileErrorRecorded ==
    [][ io_errors' > io_errors
        => /\ Len(errors') = Len(errors) + 1
           /\ pc' = "file_poll"
           /\ file_names' = Tail(file_names) ]_vars

\* C18: once the flag has been set during a scan, no further directory is
\* visited and no further file is taken up: at most the one file that was
\* being processed is still accepted, none when cancel() was called from the
\* progress callback (cancelling at the k-th accepted file returns exactly k
\* files); the flag stays set and scan returns the ScanResult of what was
\* collected, with total_count = len(files).
C18_CooperativeCancellation ==
    /\ [](cancel_mark.set =>
            /\ cancelled
            /\ Len(files) <= cancel_mark.files + 1
            /\ cancel_mark.by_callback => Len(files) = cancel_mark.files
            /\ visited = cancel_mark.visited
            /\ Returned =>
                  /\ scan_result.files = files
                  /\ scan_result.folders = folders
                  /\ scan_result.errors = errors
                  /\ scan_result.total_count = Len(scan_result.files)
                  /\ cancel_mark.by_callback =>
                        Len(scan_result.files) = args.cancel_at)
    /\ [][ cancel_mark.set =>
              /\ pc' = "folder" => pc = "folder"
              /\ pc' = "file" => pc = "file"
              /\ FilePoll => pc' = "walk"
              /\ (WalkNext /\ pc' # "walk") => pc' = "returned" ]_vars

\* C18 witness: another thread called cancel() while the first file was being
\* processed; that file was still accepted, the second file of the root was
\* not, no directory below the root was visited, and scan returned.
C18_Witness ==
    /\ Returned
    /\ cancel_mark.set /\ ~cancel_mark.by_callback
    /\ gone = [files |-> {}, dirs |-> {}]
    /\ args.extensions = {}
    /\ cancel_mark.files = 0
    /\ Len(scan_result.files) = 1
    /\ scan_result.total_count = 1
    /\ visited = <<Root>>

(***************************************************************************)
(* Properties of the categorization service.                               *)
(***************************************************************************)
\* The categories that list the extension in category_mappings
ListedUnder(ext) ==
    { category_mappings[k].category :
        k \in { i \in 1..Len(category_mappings) :
                  InList(category_mappings[i].extensions, ext) } }

C20_IndexAgreesWithRules ==
    /\ [](\A suffix \in CatSuffixes :
            LET extension == Lower(suffix)
                answer == IF extension \in DOMAIN extension_map
                          THEN extension_map[extension] ELSE default_category
            IN  IF ListedUnder(extension) = {} THEN answer = default_category
                ELSE answer \in ListedUnder(extension))
    /\ [][ \A category \in Categories, extensions \in ExtensionLists :
              add_rule(category, extensions)
                 => \A k \in 1..Len(extensions) :
                       extension_map'[Normalize(extensions[k])] = category ]_vars

\* C21: a load_from_config that fails (the file cannot be read or parsed, or
\* the document is not a mapping from category names to lists of extensions)
\* raises, and leaves category_mappings and the extension index as they were
\* before the call.
C21_LoadAtomic ==
    [][ \A config \in Configs :
           (load_from_config(config)
              /\ (~config.readable \/ BuildRaises(config.mappings)))
             => /\ cat_result'.raised
                /\ category_mappings' = category_mappings
                /\ extension_map' = extension_map ]_vars

(***************************************************************************)
(* Properties of the duplicate detector.                                   *)
(***************************************************************************)
Hashed(file) == dup_disk[file] # Unreadable
DigestOf(file) == HexDigest(dup_result.algorithm, dup_disk[file])

\* positions of the input list whose file was hashed to the digest
PositionsOf(digest) ==
    { i \in 1..Len(dup_result.input) :
        Hashed(dup_result.input[i]) /\ DigestOf(dup_result.input[i]) = digest }

Members(group) == { group.files[k] : k \in 1..Len(group.files) }
Grouped(file) ==
    \E g \in 1..Len(dup_result.groups) : file \in Members(dup_result.groups[g])

\* C22: detect_duplicates returns the classes of size >= 2 of its input under
\* "same digest": every group has at least 2 members, all hashed to the
\* group's digest; two entries with the same bytes are in one group whatever
\* their names; no file is in two groups; an entry whose digest no other entry
\* has, and an entry that could not be hashed, is in no group; and a group
\* holds as many members as entries were hashed to its digest, whatever
\* failed around them.
C22_HashClasses ==
    dup_result.call = "detect_duplicates" =>
        LET input == dup_result.input
            groups == dup_result.groups
        IN  /\ \A g \in 1..Len(groups) :
                   /\ Len(groups[g].files) >= 2
                   /\ groups[g].hash.algorithm = dup_result.algorithm
                   /\ \A f \in Members(groups[g]) :
                          Hashed(f) /\ DigestOf(f) = groups[g].hash.digest
                   /\ Len(groups[g].files) = Cardinality(PositionsOf(groups[g].hash.digest))
            /\ \A i, j \in 1..Len(input) :
                   (i # j /\ Hashed(input[i]) /\ Hashed(input[j])
                      /\ dup_disk[input[i]] = dup_disk[input[j]])
                     => \E g \in 1..Len(groups) :
                           {input[i], input[j]} \subseteq Members(groups[g])
            /\ \A g, h \in 1..Len(groups) :
                   g # h => Members(groups[g]) \cap Members(groups[h]) = {}
            /\ \A i \in 1..Len(input) :
                   (Hashed(input[i]) /\ PositionsOf(DigestOf(input[i])) = {i})
                     => ~Grouped(input[i])
            /\ \A i \in 1..Len(input) : ~Hashed(input[i]) => ~Grouped(input[i])

\* C22 witness: of four files, two with different names hold the same bytes
\* and form the one group, a third holds other bytes, and the hashing of the
\* fourth failed.
C22_Witness ==
    /\ dup_result.call = "detect_duplicates"
    /\ Len(dup_result.input) = 4
    /\ Len(dup_result.groups) = 1
    /\ Members(dup_result.groups[1]) = {"/a/x.txt", "/a/y.txt"}
    /\ \E i \in 1..4 : ~Hashed(dup_result.input[i])
    /\ \E i \in 1..4 : /\ Hashed(dup_result.input[i])
                         /\ ~Grouped(dup_result.input[i])

\* The entries of the input hashed to the digest, in input order
EntriesOf(digest) ==
    LET HasDigest(f) == Hashed(f) /\ DigestOf(f) = digest
    IN  SelectSeq(dup_result.input, HasDigest)

RECURSIVE SumOfOthers(_)
SumOfOthers(groups) ==
    IF groups = <<>> THEN 0
    ELSE (Len(Head(groups).files) - 1) + SumOfOthers(Tail(groups))

\* C23: in every group the members are in input order, the original is the
\* first of them, the duplicates are the other members (group size - 1 of
\* them), and total_duplicates is the sum of group size - 1 over the groups.
C23_OriginalFirst ==
    dup_result.call = "detect_duplicates" =>
        /\ \A g \in 1..Len(dup_result.groups) :
               LET group == dup_result.groups[g]
               IN  /\ group.files = EntriesOf(group.hash.digest)
                   /\ group.original = group.files[1]
                   /\ Duplicates(group) = Tail(group.files)
                   /\ Len(Duplicates(group)) = Len(group.files) - 1
        /\ dup_result.total_duplicates = SumOfOthers(dup_result.groups)

(***************************************************************************)
(* Properties of the organization pass.                                    *)
(***************************************************************************)
\* C24: no step of a dry run (the start of the pass, the handling of a file,
\* the report phase, a call of organize for a dry-run task) changes the source
\* directory (directories, files, duplicates metadata, reports) or the
\* transaction log and its history file.
C24_DryRunChangesNothing ==
    [][ ((pass' # pass /\ pass'.dry_run) \/ (org_result' # org_result /\ org_result'.dry_run))
          => /\ pass_fs' = pass_fs
             /\ UNCHANGED <<undo_stack, redo_stack, current_job_operations, history_file, fs>>
      ]_vars

\* C24 witness: after a pass that copied the files, a dry run went through
\* all three files, counted two to organize and one duplicate, and the
\* source directory holds what the first pass left: one metadata entry, the
\* three files and their three copies.
C24_Witness ==
    /\ pass.n = 2
    /\ pass.dry_run
    /\ pass.pc = "done"
    /\ pass.stats.files_processed = 3
    /\ pass.stats.files_moved = 2
    /\ pass.stats.duplicates_found = 1
    /\ Cardinality(pass_fs.metadata) = 1
    /\ Cardinality(pass_fs.files) = 6

(***************************************************************************)
(* Properties of file moves.                                               *)
(***************************************************************************)
\* The destination holds a part of the file being moved
Partial(file) == file.id = mv.original.id /\ file.chunks < mv.original.chunks

\* C25: when a move that went to copy-then-delete has failed, the source is
\* still there as it was and the destination does not hold a partial file;
\* and at no point of a move is the source gone while the destination is
\* partial.
C25_FailedMoveLeavesNoDebris ==
    /\ (mv.pc = "done" /\ mv.failed_at \in {"write", "unlink"})
          => /\ vol[mv.source] = mv.original
             /\ ~Partial(vol[mv.destination])
    /\ mv.pc # "idle" => ~(vol[mv.source] = Nothing /\ Partial(vol[mv.destination]))

(***************************************************************************)
(* Properties of the two stacks of the transaction log taken together.     *)
(***************************************************************************)
\* How many entries of q are the operation op
Occurrences(op, q) == Cardinality({ k \in 1..Len(q) : q[k] = op })

\* The two stacks hold the same operations, each as many times
SameCollection(u1, r1, u2, r2) ==
    \A op \in Range(u1) \cup Range(r1) \cup Range(u2) \cup Range(r2) :
        Occurrences(op, u1 \o r1) = Occurrences(op, u2 \o r2)

\* C26: the undo stack and the redo stack together never hold more than
\* max_history operations, and undo_last_operation, undo_last_job and
\* redo_last_operation only move entries between the two stacks: the
\* operations the two stacks hold together are the same before and after.
C26_StacksShareCap ==
    /\ [](Len(undo_stack) + Len(redo_stack) <= max_history)
    /\ [][ (undo_last_operation \/ undo_last_job \/ redo_last_operation)
             => SameCollection(undo_stack, redo_stack, undo_stack', redo_stack') ]_vars

\* Witness: with max_history = 2, three operations were recorded (the first
\* was evicted by the third), and an undo has moved one of the two that
\* are left to the redo stack: the stacks together are full.
C26_Witness ==
    /\ max_history = 2
    /\ count.ops = 3
    /\ result.call = "undo_last_operation"
    /\ result.ret = "True"
    /\ Len(undo_stack) = 1
    /\ Len(redo_stack) = 1
    /\ undo_stack[1].seq = 2
    /\ redo_stack[1].seq = 3

\* C27: the undo stack is always ordered by recording time, the earliest
\* recorded operation at the bottom and the latest on top, also after an
\* undo_last_job in which several reversals failed.
C27_UndoStackInRecordingOrder ==
    \A i, j \in 1..Len(undo_stack) : i < j => undo_stack[i].seq < undo_stack[j].seq

\* C28: undoing a move does not destroy another file: when a file other
\* than the moved one is at the operation's source path, an
\* undo_last_operation either leaves the filesystem as it is or leaves that
\* file's content somewhere on it.
C28_UndoMoveKeepsOtherFile ==
    [][ ( /\ undo_last_operation
          /\ undo_stack # <<>>
          /\ IsMove(Last(undo_stack))
          /\ fs[Last(undo_stack).source] # NoFile
          /\ fs[Last(undo_stack).source] # fs[Last(undo_stack).destination] )
        => \/ fs' = fs
           \/ \E p \in Paths : fs'[p] = fs[Last(undo_stack).source] ]_vars

(***************************************************************************)
(* Properties of two categorization services.                              *)
(***************************************************************************)
\* What a service with the given index answers for a suffix
AnswerOf(map, suffix) == Lookup(map, Lower(suffix), default_category)

\* C29: rule changes are local to the service they are made on: the
\* module-level default table stays as it was written, and a second service
\* built with the default mappings, before or after the changes, has the
\* default categories with their extension lists and gives the answers of
\* the default rules.
C29_RuleChangesAreLocal ==
    /\ default_mappings = DefaultCategoryMappings
    /\ peer.built =>
          \A suffix \in CatSuffixes :
             AnswerOf(peer.extension_map, suffix)
                = AnswerOf(BuildExtensionMap(<<>>, DefaultCategoryMappings), suffix)

(***************************************************************************)
(* Properties of cancel() racing with the start of a scan.                 *)
(***************************************************************************)
\* C30: a cancel() called by another thread at any moment between the call
\* of scan() and its return stops the scan before it has accepted more than
\* one further file, also when it comes before the first poll of the flag
\* (no file had been accepted then, so the scan accepts at most one).
C30_CancelNeverLost ==
    /\ cancel_mark.set => Len(files) <= cancel_mark.files + 1
    /\ cancel_mark.early => Len(files) <= 1

====
